---------------------------- MODULE Spec2Model ----------------------------
(***************************************************************************)
(* A model of glslang's parse context (TParseContext, ParseHelper.cpp):    *)
(* the driver entry parseShaderStrings, the error sink, and the grammar    *)
(* handlers for dereferences, calls, constructors, declarations and the    *)
(* ES inductive-loop check.                                                *)
(*                                                                         *)
(* Every handler group has its own specification over the shared context   *)
(* state (numErrors, errLog); the variables another group owns stay at     *)
(* their idle values there.  Floating point constants are modelled by      *)
(* integers (1.0 is 1), strings by sequences of one-character strings.     *)
(***************************************************************************)
EXTENDS Integers, Sequences, FiniteSets, TLC

VARIABLES
    pc,                 \* where the context is: which handler group runs, or the driver's position
    numErrors,          \* TParseContext::numErrors
    errLog,             \* what error() wrote to infoSink.info, in order
    \* ---- parseShaderStrings and the parser callbacks
    stringsNull,        \* the argument strings is a null pointer
    strings,            \* the argument strings[]: records [isNull, text]
    lengths,            \* the argument lengths[]
    retVal,             \* parseShaderStrings' return value, valid once pc = "returned"
    afterEOF,           \* TParseContext::afterEOF
    tokensBeforeEOF,    \* TParseContext::tokensBeforeEOF
    limits,             \* TParseContext::limits (the general*Indexing flags)
    anyIndexLimits,     \* TParseContext::anyIndexLimits
    needsIndexLimitationChecking, \* TParseContext::needsIndexLimitationChecking
    indexChecked,       \* the indexes finalize() passed to constantIndexExpressionCheck, in order
    \* ---- parseVectorFields
    compString,         \* the argument compString
    vecSize,            \* the argument vecSize
    fields,             \* the out-parameter fields: [num, offsets]
    fieldsOk,           \* parseVectorFields' return value, valid once pc = "fields_done"
    \* ---- the configuration the context was constructed with
    version,            \* TParseContext::version
    profile,            \* TParseContext::profile
    language,           \* TParseContext::language
    \* ---- the expression handlers
    symbolTable,        \* TParseContext::symbolTable: [levels, uniqueId]
    node,               \* the node the last handler returned (the grammar's $$)
    call,               \* the last handler call: its name and arguments
    steps,              \* how many handlers have run on the expression
    \* ---- declarations
    mainCount,          \* the intermediate's count of main functions (addMainCount)
    currentCaller,      \* TParseContext::currentCaller
    linkage,            \* the names of the symbols in TParseContext::linkage, in order
    initNode,           \* what the last declareVariable returned
    script,             \* the source text handled so far, token by token
    \* ---- constructorError
    ctorCall,           \* the constructor call checked: [op, type, params]
    ctorResult,         \* what constructorError returned: [err, type, errs]
    \* ---- inductiveLoopCheck
    lastLoop,           \* the loop checked last: [init, test, terminal, body]
    loopErrs,           \* the errors the last inductiveLoopCheck reported
    inductiveLoopIds,   \* TParseContext::inductiveLoopIds
    loopsChecked,       \* how many loops have been checked
    \* ---- executeInitializer
    initCalls,          \* the calls of executeInitializer so far, each with what it left
    funcCalls,          \* the function headers handled so far, each with what it reported
    parserErrorCalls,   \* the calls of parserError so far, each with what it reported
    defaultPrecision,   \* TParseContext::defaultPrecision, by basic type
    defaultSamplerPrecision, \* TParseContext::defaultSamplerPrecision, by sampler type index
    precisionCalls,     \* the precision statements handled so far
    dst,                \* the qualifier the single qualifiers of a declaration are merged into
    mergeCalls,         \* the calls of mergeQualifiers so far, each with what it left
    switchSequenceStack, \* TParseContext::switchSequenceStack, the innermost switch last
    switchCalls,        \* how many calls of wrapupSwitchSubsequence were made
    operands,           \* the expressions built and not yet combined, the latest last
    contextPragma,      \* TParseContext::contextPragma: the optimize and debug flags
    pragmaCalls         \* the calls of handlePragma so far, each with what it left

driverVars == <<stringsNull, strings, lengths, retVal, afterEOF, tokensBeforeEOF,
                limits, anyIndexLimits, needsIndexLimitationChecking, indexChecked>>

fieldVars == <<compString, vecSize, fields, fieldsOk>>

configVars == <<version, profile, language>>

exprVars == <<symbolTable, node, call, steps>>

declVars == <<mainCount, currentCaller, linkage, initNode, script>>

ctorVars == <<ctorCall, ctorResult>>

loopVars == <<lastLoop, loopErrs, inductiveLoopIds, loopsChecked>>

initVars == <<initCalls>>

funcVars == <<funcCalls>>

parserVars == <<parserErrorCalls>>

precVars == <<defaultPrecision, defaultSamplerPrecision, precisionCalls>>

mergeVars == <<dst, mergeCalls>>

switchVars == <<switchSequenceStack, switchCalls>>

\* the variables of the statement and pragma handlers
stmtVars == <<switchVars, operands, contextPragma, pragmaCalls>>

\* the variables of the helpers that are run on their own
helperVars == <<initVars, funcVars, parserVars, precVars, mergeVars, stmtVars>>

vars == <<pc, numErrors, errLog, driverVars, fieldVars, configVars, exprVars, declVars,
          ctorVars, loopVars, helperVars>>

\* what the handlers of one group leave alone
notDriverVars == <<fieldVars, configVars, exprVars, declVars, ctorVars, loopVars, helperVars>>
notFieldVars == <<driverVars, configVars, exprVars, declVars, ctorVars, loopVars, helperVars>>

--------------------------------------------------------------------------
(* Bounds of the model *)

\* how many errors one behaviour of the driver may collect
MaxErrors == 2
\* how many sub-strings a call of parseShaderStrings receives
MaxStrings == 2
\* the longest field selector parseVectorFields is tried on
MaxFieldLen == 5

--------------------------------------------------------------------------
(* Helpers *)

Range(s) == { s[i] : i \in 1..Len(s) }

SeqsUpTo(S, n) == UNION { [1..k -> S] : k \in 0..n }

--------------------------------------------------------------------------
(* error(): one located line on the info sink, and ++numErrors *)

\* the start location the constructor sets: currentLoc.line = 1, currentLoc.string = 0
currentLoc == [string |-> 0, line |-> 1]

error(loc, szReason, szToken) == [loc |-> loc, reason |-> szReason, token |-> szToken]

\* the effect of a handler's calls of error(), errs being those calls in order
Report(errs) ==
    /\ numErrors' = numErrors + Len(errs)
    /\ errLog' = errLog \o errs

--------------------------------------------------------------------------
(* Types (TType): basic type, storage qualifier, shape *)

TType(basic, storage, vs, mc, mr) ==
    [basic |-> basic, storage |-> storage, vectorSize |-> vs,
     matrixCols |-> mc, matrixRows |-> mr,
     isArray |-> FALSE, arraySize |-> 0, maxArraySize |-> 0, struct |-> <<>>]

\* the type with array sizes set: an array of n elements, n = 0 for an unsized one
ArrayOf(t, n) == [t EXCEPT !.isArray = TRUE, !.arraySize = n]

\* a structure type; fieldList is a sequence of [fieldName, type]
StructOf(storage, fieldList) ==
    [TType("EbtStruct", storage, 1, 0, 0) EXCEPT !.struct = fieldList]

isArray(t) == t.isArray
isMatrix(t) == t.matrixCols > 0
isVector(t) == t.vectorSize > 1
isStruct(t) == t.struct # <<>>
isScalar(t) == t.vectorSize = 1 /\ ~isStruct(t) /\ ~isArray(t)

Max(a, b) == IF a >= b THEN a ELSE b

RECURSIVE getObjectSize(_)
RECURSIVE SumObjectSizes(_)
SumObjectSizes(fieldList) ==
    IF fieldList = <<>> THEN 0
    ELSE getObjectSize(Head(fieldList).type) + SumObjectSizes(Tail(fieldList))

\* the element count after flattening arrays, matrices and vectors
getObjectSize(t) ==
    LET elem == IF isStruct(t) THEN SumObjectSizes(t.struct)
                ELSE IF isMatrix(t) THEN t.matrixCols * t.matrixRows
                ELSE t.vectorSize
    IN  IF t.isArray THEN elem * Max(t.arraySize, t.maxArraySize) ELSE elem

\* reduce the outer dimension: array to element, matrix to column, vector to scalar
dereference(t) ==
    IF t.isArray THEN [t EXCEPT !.isArray = FALSE, !.arraySize = 0, !.maxArraySize = 0]
    ELSE IF t.matrixCols > 0
    THEN [t EXCEPT !.vectorSize = t.matrixRows, !.matrixCols = 0, !.matrixRows = 0]
    ELSE IF t.vectorSize > 1 THEN [t EXCEPT !.vectorSize = 1]
    ELSE t

isUniform(t) == t.storage = "EvqUniform"
isPipeInput(t) == t.storage \in {"EvqVaryingIn", "EvqIn"}
isPipeOutput(t) == t.storage \in {"EvqVaryingOut", "EvqOut"}

--------------------------------------------------------------------------
(* HIR nodes, as the calls of the intermediate's builder leave them *)

NullNode ==
    [kind |-> "Null", op |-> "EOpNull", type |-> TType("EbtVoid", "EvqTemporary", 1, 0, 0),
     name |-> "", id |-> 0, constArray |-> <<>>, children |-> <<>>]

addSymbol(id, name, type) ==
    [NullNode EXCEPT !.kind = "Symbol", !.id = id, !.name = name, !.type = type]

addConstantUnion(unionArray, type) ==
    [NullNode EXCEPT !.kind = "ConstantUnion", !.constArray = unionArray, !.type = type]

\* addIndex leaves the type to its caller
addIndex(op, base, index) ==
    [NullNode EXCEPT !.kind = "Binary", !.op = op, !.children = <<base, index>>,
                     !.type = TType("EbtFloat", "EvqTemporary", 1, 0, 0)]

\* the aggregate of constant indexes a swizzle selects
addSwizzle(flds) ==
    [NullNode EXCEPT !.kind = "Aggregate", !.op = "EOpSequence",
                     !.children = [i \in 1..flds.num |->
                                     addConstantUnion(<<flds.offsets[i]>>,
                                                      TType("EbtInt", "EvqConst", 1, 0, 0))]]

addMethod(base, type, name) ==
    [NullNode EXCEPT !.kind = "Method", !.op = "EOpMethod", !.name = name, !.type = type,
                     !.children = <<base>>]

setType(n, type) == [n EXCEPT !.type = type]

\* the recovery node: the constant float 0.0
RecoveryNode == addConstantUnion(<<0>>, TType("EbtFloat", "EvqConst", 1, 0, 0))

--------------------------------------------------------------------------
(* The symbol table: a stack of levels, the built-in level first *)

NoSymbol ==
    [kind |-> "None", name |-> "", type |-> TType("EbtVoid", "EvqTemporary", 1, 0, 0),
     constArray |-> <<>>, uniqueId |-> 0, readOnly |-> FALSE,
     defined |-> FALSE, builtInOp |-> "EOpNull", params |-> <<>>, mangledName |-> "",
     container |-> "", memberNumber |-> 0,
     invariant |-> FALSE]    \* the invariant flag of the symbol's type's qualifier

TVariable(name, type) == [NoSymbol EXCEPT !.kind = "Variable", !.name = name, !.type = type]

BasicMangle ==
    [EbtVoid |-> "v", EbtFloat |-> "f", EbtDouble |-> "d", EbtInt |-> "i", EbtUint |-> "u",
     EbtBool |-> "b", EbtSampler |-> "s", EbtStruct |-> "struct", EbtBlock |-> "block"]

Digits == <<"1", "2", "3", "4", "5", "6", "7", "8", "9">>

Digit == [n \in 0..9 |-> IF n = 0 THEN "0" ELSE Digits[n]]

\* the part of a mangled name one parameter type adds
TypeMangle(t) ==
    (IF isMatrix(t) THEN "m" ELSE IF isVector(t) THEN "v" ELSE "")
    \o BasicMangle[t.basic]
    \o (IF isMatrix(t) THEN Digit[t.matrixCols] \o Digit[t.matrixRows] ELSE Digit[t.vectorSize])
    \o (IF isArray(t) THEN "[]" ELSE "")
    \o ";"

RECURSIVE MangleParams(_)
MangleParams(params) ==
    IF params = <<>> THEN "" ELSE TypeMangle(Head(params)) \o MangleParams(Tail(params))

\* the name a function is looked up by: its name and its parameter types
MangledName(name, params) == name \o "(" \o MangleParams(params)

TFunction(name, type, op, params) ==
    [NoSymbol EXCEPT !.kind = "Function", !.name = name, !.type = type,
                     !.builtInOp = op, !.params = params,
                     !.mangledName = MangledName(name, params)]

\* the name a symbol is filed under
Key(sym) == IF sym.kind = "Function" THEN sym.mangledName ELSE sym.name

BuiltInLevel == 1
GlobalLevel == 2

NamesAt(tab, l) == { Key(sym) : sym \in tab.levels[l] }

\* the innermost level that holds the name, 0 when none does
FindLevel(tab, name) ==
    LET ls == { l \in 1..Len(tab.levels) : name \in NamesAt(tab, l) }
    IN  IF ls = {} THEN 0 ELSE CHOOSE l \in ls : \A k \in ls : k <= l

find(tab, name) ==
    IF FindLevel(tab, name) = 0 THEN NoSymbol
    ELSE CHOOSE sym \in tab.levels[FindLevel(tab, name)] : Key(sym) = name

findBuiltIn(tab, name) == FindLevel(tab, name) = BuiltInLevel

atGlobalLevel(tab) == Len(tab.levels) <= GlobalLevel

\* insert(symbol): [ok, tab, symbol]; it fails when the name exists at the
\* current scope, and gives the symbol its unique id otherwise
insert(tab, sym) ==
    LET cur == Len(tab.levels)
        placed == [sym EXCEPT !.uniqueId = tab.uniqueId + 1]
    IN  IF Key(sym) \in NamesAt(tab, cur)
        THEN [ok |-> FALSE, tab |-> tab, symbol |-> sym]
        ELSE [ok |-> TRUE,
              tab |-> [levels |-> [tab.levels EXCEPT ![cur] = @ \cup {placed}],
                       uniqueId |-> tab.uniqueId + 1],
              symbol |-> placed]

\* replace, at level l, the symbol of that name
replaceAt(tab, l, sym) ==
    [tab EXCEPT !.levels[l] = { IF Key(x) = Key(sym) THEN sym ELSE x : x \in @ }]

\* the symbol written where it was found, whatever the level
writeInPlace(tab, sym) == replaceAt(tab, FindLevel(tab, Key(sym)), sym)

\* copyUp(symbol): a writable clone of a built-in symbol at the global level
copyUp(tab, sym) ==
    LET clone == [sym EXCEPT !.readOnly = FALSE]
    IN  [tab EXCEPT !.levels[GlobalLevel] = { x \in @ : Key(x) # Key(sym) } \cup {clone}]

push(tab) == [tab EXCEPT !.levels = Append(@, {})]

pop(tab) == [tab EXCEPT !.levels = SubSeq(@, 1, Len(@) - 1)]

--------------------------------------------------------------------------
(* The feature gate *)

Profiles == {"ENoProfile", "ECoreProfile", "ECompatibilityProfile", "EEsProfile"}

Desktop == {"ECoreProfile", "ECompatibilityProfile"}

\* requireProfile(loc, profileMask, featureDesc): the errors it reports
requireProfile(loc, profileMask, featureDesc) ==
    IF profile \in profileMask THEN <<>>
    ELSE <<error(loc, "not supported with this profile:", featureDesc)>>

\* profileRequires(loc, profileMask, minVersion, extension, featureDesc), no
\* extension being enabled: the errors it reports
profileRequires(loc, profileMask, minVersion, featureDesc) ==
    IF profile \in profileMask /\ ~(minVersion > 0 /\ version >= minVersion)
    THEN <<error(loc, "not supported for this version or the enabled extensions", featureDesc)>>
    ELSE <<>>

\* the configurations the handlers are tried under
Configs ==
    { [version |-> 110, profile |-> "ENoProfile", language |-> "EShLangVertex"],
      [version |-> 100, profile |-> "EEsProfile", language |-> "EShLangFragment"],
      [version |-> 430, profile |-> "ECoreProfile", language |-> "EShLangFragment"] }

ConfigIdle ==
    /\ version = 110
    /\ profile = "ENoProfile"
    /\ language = "EShLangVertex"

NoCall ==
    [handler |-> "none", base |-> NullNode, field |-> <<>>, index |-> NullNode,
     flds |-> [num |-> 0, offsets |-> <<>>], reads |-> <<>>, errs |-> <<>>]

EmptyTable == [levels |-> <<{}, {}>>, uniqueId |-> 0]

ExprIdle ==
    /\ symbolTable = EmptyTable
    /\ node = NullNode
    /\ call = NoCall
    /\ steps = 0

DeclIdle ==
    /\ mainCount = 0
    /\ currentCaller = ""
    /\ linkage = <<>>
    /\ initNode = NullNode
    /\ script = <<>>

NoCtorCall == [op |-> "EOpNull", type |-> NullNode.type, params |-> <<>>]

NoCtorResult == [err |-> FALSE, type |-> NullNode.type, errs |-> <<>>]

CtorIdle ==
    /\ ctorCall = NoCtorCall
    /\ ctorResult = NoCtorResult

NoLoop == [init |-> NullNode, test |-> NullNode, terminal |-> NullNode,
           body |-> [modifiesIndex |-> FALSE]]

LoopIdle ==
    /\ lastLoop = NoLoop
    /\ loopErrs = <<>>
    /\ inductiveLoopIds = {}
    /\ loopsChecked = 0

InitIdle == initCalls = <<>>

FuncIdle == funcCalls = <<>>

ParserIdle == parserErrorCalls = <<>>

PrecIdle ==
    /\ defaultPrecision = <<>>
    /\ defaultSamplerPrecision = <<>>
    /\ precisionCalls = <<>>

MergeIdle ==
    /\ dst = <<>>
    /\ mergeCalls = <<>>

SwitchIdle ==
    /\ switchSequenceStack = <<>>
    /\ switchCalls = 0

UseIdle == operands = <<>>

\* contextPragma(true, false)
PragmaIdle ==
    /\ contextPragma = [optimize |-> TRUE, debug |-> FALSE]
    /\ pragmaCalls = <<>>

StmtIdle == SwitchIdle /\ UseIdle /\ PragmaIdle

HelperIdle == InitIdle /\ FuncIdle /\ ParserIdle /\ PrecIdle /\ MergeIdle /\ StmtIdle

--------------------------------------------------------------------------
(* parseShaderStrings *)

WhiteSpace == {" ", "\t", "\n", "\r"}

\* the sub-string texts the driver is tried on: empty, white space only,
\* white space before a token, a token
SampleTexts == { <<>>, <<" ">>, <<"\t", "\n">>, <<" ", "v">>, <<"v">>, <<"\r", "v">> }

\* a sub-string argument: a null pointer (with any length given for it), or a text
SubStrings ==
    { [isNull |-> TRUE, text |-> <<>>, length |-> n] : n \in 0..1 }
    \cup { [isNull |-> FALSE, text |-> t, length |-> Len(t)] : t \in SampleTexts }

NoLimits ==
    [generalAttributeMatrixVectorIndexing |-> TRUE, generalConstantMatrixVectorIndexing |-> TRUE,
     generalSamplerIndexing |-> TRUE, generalUniformIndexing |-> TRUE,
     generalVariableIndexing |-> TRUE, generalVaryingIndexing |-> TRUE]

LimitChoices ==
    { NoLimits,
      [generalAttributeMatrixVectorIndexing |-> TRUE, generalConstantMatrixVectorIndexing |-> TRUE,
       generalSamplerIndexing |-> FALSE, generalUniformIndexing |-> TRUE,
       generalVariableIndexing |-> FALSE, generalVaryingIndexing |-> TRUE] }

\* "empty shaders are okay"
IsEmptyShader(sNull, strs, lens) ==
    sNull \/ Len(strs) = 0 \/ lens[1] = 0

\* the index of the first null sub-string, 0 when there is none (the for loop's scan)
FirstNull(strs) ==
    IF \E i \in 1..Len(strs) : strs[i].isNull
    THEN CHOOSE i \in 1..Len(strs) :
            /\ strs[i].isNull
            /\ \A j \in 1..(i-1) : ~strs[j].isNull
    ELSE 0

\* the while loop over strings[0], entered with lengths[0] >= 1: it returns
\* true from inside exactly when the first lengths[0] characters are all white
\* space (text[k] is strings[0][k-1]; the text's terminator is no white space)
LeadingWhiteSpaceOnly(text, len0) ==
    /\ len0 <= Len(text)
    /\ \A k \in 1..len0 : text[k] \in WhiteSpace

ComputeAnyIndexLimits(l) ==
    \/ ~l.generalAttributeMatrixVectorIndexing
    \/ ~l.generalConstantMatrixVectorIndexing
    \/ ~l.generalSamplerIndexing
    \/ ~l.generalUniformIndexing
    \/ ~l.generalVariableIndexing
    \/ ~l.generalVaryingIndexing

ParseResultNeverFails(n) == n >= 0

\* the value the last statement returns
ParseResult(n) == n = 0

\* the call, up to where it returns early or hands the strings to yyparse
ParseShaderStrings ==
    /\ pc = "constructed"
    /\ \E sNull \in BOOLEAN, strs \in SeqsUpTo(SubStrings, MaxStrings) :
        /\ stringsNull' = sNull
        /\ strings' = (IF sNull THEN <<>> ELSE strs)
        /\ lengths' = (IF sNull THEN <<>> ELSE [i \in 1..Len(strs) |-> strs[i].length])
        /\ LET s == strings'
               l == lengths'
           IN  IF IsEmptyShader(sNull, s, l)
               THEN /\ pc' = "returned"
                    /\ retVal' = TRUE
                    /\ Report(<<>>)
                    /\ UNCHANGED anyIndexLimits
               ELSE IF FirstNull(s) # 0
               THEN /\ pc' = "returned"
                    /\ retVal' = FALSE
                    /\ Report(<<error([string |-> FirstNull(s) - 1, line |-> 1],
                                      "Null shader source string", "")>>)
                    /\ UNCHANGED anyIndexLimits
               ELSE IF LeadingWhiteSpaceOnly(s[1].text, l[1])
               THEN /\ pc' = "returned"
                    /\ retVal' = TRUE
                    /\ Report(<<>>)
                    /\ UNCHANGED anyIndexLimits
               ELSE /\ pc' = "yyparse"
                    /\ anyIndexLimits' = ComputeAnyIndexLimits(limits)
                    /\ Report(<<>>)
                    /\ UNCHANGED retVal
    /\ UNCHANGED <<afterEOF, tokensBeforeEOF, limits, needsIndexLimitationChecking, indexChecked>>
    /\ UNCHANGED notDriverVars

\* the scanner, between two reductions: it owns afterEOF and tokensBeforeEOF
ScannerStep ==
    /\ pc = "yyparse"
    /\ \E a \in BOOLEAN, t \in 0..2 :
        /\ afterEOF' = a
        /\ tokensBeforeEOF' = t
    /\ UNCHANGED <<pc, numErrors, errLog, stringsNull, strings, lengths, retVal, limits,
                   anyIndexLimits, needsIndexLimitationChecking, indexChecked, notDriverVars>>

\* parserError(s): the errors it reports
parserErrorErrsAlways(aEOF, tBefore) == <<error(currentLoc, "", "")>>

parserErrorErrs(aEOF, tBefore) ==
    IF aEOF
    THEN IF tBefore = 1
         THEN <<error(currentLoc, "", "pre-mature EOF")>>
         ELSE <<>>
    ELSE <<error(currentLoc, "", "")>>

ParserError ==
    /\ pc = "yyparse"
    /\ numErrors < MaxErrors
    /\ Len(parserErrorCalls) < MaxErrors
    /\ Report(parserErrorErrs(afterEOF, tokensBeforeEOF))
    /\ parserErrorCalls' = Append(parserErrorCalls,
                                  [afterEOF |-> afterEOF, tokensBeforeEOF |-> tokensBeforeEOF,
                                   errs |-> parserErrorErrs(afterEOF, tokensBeforeEOF),
                                   numErrors |-> <<numErrors, numErrors'>>])
    /\ UNCHANGED <<pc, driverVars, fieldVars, configVars, exprVars, declVars, ctorVars,
                   loopVars, initVars, funcVars, precVars, mergeVars, stmtVars>>

\* a constant-index-expression: a constant, or the index of an inductive loop
IsConstantIndexExpression(index) ==
    \/ index.kind = "ConstantUnion"
    \/ index.kind = "Symbol" /\ index.id \in inductiveLoopIds

\* constantIndexExpressionCheck(index): an error for an index that is no
\* constant-index-expression
constantIndexExpressionCheckErrs(index) ==
    IF IsConstantIndexExpression(index)
    THEN <<>>
    ELSE <<error(currentLoc, "Non-constant-index-expression", "limitations")>>

finalizeVisitsBackwards(q) == [i \in 1..Len(q) |-> q[Len(q) + 1 - i]]

\* the entries the loop of finalize() passes to constantIndexExpressionCheck,
\* in the order it passes them
finalizeVisits(q) == [i \in 1..Len(q) |-> q[i]]

RECURSIVE FinalizeErrs(_)
FinalizeErrs(q) ==
    IF q = <<>> THEN <<>>
    ELSE constantIndexExpressionCheckErrs(Head(q)) \o FinalizeErrs(Tail(q))

\* yyparse returns; finalize() runs; the call returns numErrors == 0
FinalizeAndReturn ==
    /\ pc = "yyparse"
    /\ indexChecked' = indexChecked \o finalizeVisits(needsIndexLimitationChecking)
    /\ Report(FinalizeErrs(finalizeVisits(needsIndexLimitationChecking)))
    /\ retVal' = ParseResult(numErrors')
    /\ pc' = "returned"
    /\ UNCHANGED <<stringsNull, strings, lengths, afterEOF, tokensBeforeEOF, limits,
                   anyIndexLimits, needsIndexLimitationChecking, notDriverVars>>

\* the context as its constructor leaves it
ContextInit ==
    /\ numErrors = 0
    /\ errLog = <<>>
    /\ afterEOF = FALSE
    /\ tokensBeforeEOF = 0
    /\ needsIndexLimitationChecking = <<>>
    /\ indexChecked = <<>>
    /\ anyIndexLimits = FALSE

DriverIdle ==
    /\ stringsNull = FALSE
    /\ strings = <<>>
    /\ lengths = <<>>
    /\ retVal = TRUE

FieldsIdle ==
    /\ compString = <<>>
    /\ vecSize = 1
    /\ fields = [num |-> 0, offsets |-> <<>>]
    /\ fieldsOk = TRUE

Init ==
    /\ pc = "constructed"
    /\ ContextInit
    /\ DriverIdle
    /\ FieldsIdle
    /\ ConfigIdle
    /\ ExprIdle
    /\ DeclIdle
    /\ CtorIdle
    /\ LoopIdle
    /\ HelperIdle
    /\ limits \in LimitChoices

Next ==
    \/ ParseShaderStrings
    \/ ScannerStep
    \/ ParserError
    \/ FinalizeAndReturn

Spec == Init /\ [][Next]_vars

--------------------------------------------------------------------------
(* parseVectorFields *)

\* the offset the switch stores for a field character, -1 for its default case
FieldOffset(c) ==
    CASE c \in {"x", "r", "s"} -> 0
      [] c \in {"y", "g", "t"} -> 1
      [] c \in {"z", "b", "p"} -> 2
      [] c \in {"w", "a", "q"} -> 3
      [] OTHER -> -1

\* the field set the switch stores for a field character
FieldSetOf(c) ==
    CASE c \in {"x", "y", "z", "w"} -> "exyzw"
      [] c \in {"r", "g", "b", "a"} -> "ergba"
      [] c \in {"s", "t", "p", "q"} -> "estpq"
      [] OTHER -> "none"

\* the largest fields.num the first test lets through
MaxFields == 4

\* the second loop's test of neighbouring field sets, at 1-based position i
FieldSetMismatch(str, i) ==
    i > 1 /\ FieldSetOf(str[i]) # FieldSetOf(str[i-1])

FieldRangeUnchecked(str, size, i) == FieldOffset(str[i]) > size

\* the second loop's range test, at 1-based position i
FieldOutOfRange(str, size, i) == FieldOffset(str[i]) >= size

\* parseVectorFields(loc, compString, vecSize, fields):
\* [ok, fields, errs]; a failing call leaves in fields.offsets what the first
\* loop had stored before it stopped
parseVectorFields(loc, str, size) ==
    LET num == Len(str)
        illegal == { i \in 1..num : FieldOffset(str[i]) = -1 }
        firstIllegal == CHOOSE i \in illegal : \A j \in illegal : i <= j
        offs == [i \in 1..num |-> FieldOffset(str[i])]
        bad == { i \in 1..num : FieldOutOfRange(str, size, i) \/ FieldSetMismatch(str, i) }
        firstBad == CHOOSE i \in bad : \A j \in bad : i <= j
    IN  IF num > MaxFields
        THEN [ok |-> FALSE, fields |-> [num |-> num, offsets |-> <<>>],
              errs |-> <<error(loc, "illegal vector field selection", str)>>]
        ELSE IF illegal # {}
        THEN [ok |-> FALSE,
              fields |-> [num |-> num, offsets |-> SubSeq(offs, 1, firstIllegal - 1)],
              errs |-> <<error(loc, "illegal vector field selection", str)>>]
        ELSE IF bad # {}
        THEN [ok |-> FALSE, fields |-> [num |-> num, offsets |-> offs],
              errs |-> <<IF FieldOutOfRange(str, size, firstBad)
                         THEN error(loc, "vector field selection out of range", str)
                         ELSE error(loc, "illegal - vector component fields not from the same set", str)>>]
        ELSE [ok |-> TRUE, fields |-> [num |-> num, offsets |-> offs], errs |-> <<>>]

\* the characters the selectors are drawn from: every field character and one
\* that is none for the short selectors, some of each set for the long ones
AllSelectorChars == {"x", "y", "z", "w", "r", "g", "b", "a", "s", "t", "p", "q", "k"}
SelectorChars == {"x", "y", "z", "w", "r", "t", "k"}

VectorSizes == 1..4

ParseVectorFields ==
    /\ pc = "fields_input"
    /\ \E r \in {parseVectorFields(currentLoc, compString, vecSize)} :
           /\ fields' = r.fields
           /\ fieldsOk' = r.ok
           /\ Report(r.errs)
    /\ pc' = "fields_done"
    /\ UNCHANGED <<compString, vecSize, notFieldVars>>

FieldsInit ==
    /\ pc = "fields_input"
    /\ ContextInit
    /\ DriverIdle
    /\ ConfigIdle
    /\ ExprIdle
    /\ DeclIdle
    /\ CtorIdle
    /\ LoopIdle
    /\ HelperIdle
    /\ limits = NoLimits
    /\ compString \in SeqsUpTo(AllSelectorChars, 2) \cup SeqsUpTo(SelectorChars, MaxFieldLen)
    /\ vecSize \in VectorSizes
    /\ fields = [num |-> 0, offsets |-> <<>>]
    /\ fieldsOk = TRUE

FieldsNext == ParseVectorFields

SpecFields == FieldsInit /\ [][FieldsNext]_vars

--------------------------------------------------------------------------
(* handleVariable and variableCheck *)

\* handleVariable(loc, symbol, string): [result, errs]
handleVariable(loc, symbol, string, tab) ==
    IF symbol.kind = "AnonMember"
    THEN LET variable == find(tab, symbol.container)
             container == addSymbol(variable.uniqueId, variable.name, variable.type)
             constNode == addConstantUnion(<<symbol.memberNumber>>,
                                           TType("EbtUint", "EvqConst", 1, 0, 0))
         IN  [result |-> setType(addIndex("EOpIndexDirectStruct", container, constNode),
                                 variable.type.struct[symbol.memberNumber + 1].type),
              errs |-> <<>>]
    ELSE LET variable == IF symbol.kind = "Variable" THEN symbol
                         ELSE TVariable(string, TType("EbtVoid", "EvqTemporary", 1, 0, 0))
         IN  [result |-> IF variable.type.storage = "EvqConst"
                         THEN addConstantUnion(variable.constArray, variable.type)
                         ELSE addSymbol(variable.uniqueId, variable.name, variable.type),
              errs |-> IF symbol.kind # "None" /\ symbol.kind # "Variable"
                       THEN <<error(loc, "variable name expected", string)>>
                       ELSE <<>>]

\* variableCheck(nodePtr): [node, errs, tab]
variableCheck(n, tab) ==
    IF n.kind # "Symbol"
    THEN [node |-> n, errs |-> <<>>, tab |-> tab]
    ELSE IF n.type.basic = "EbtVoid"
    THEN LET ins == insert(tab, TVariable(n.name, TType("EbtFloat", "EvqTemporary", 1, 0, 0)))
         IN  [node |-> addSymbol(ins.symbol.uniqueId, ins.symbol.name, ins.symbol.type),
              errs |-> <<error(currentLoc, "undeclared identifier", n.name)>>,
              tab |-> ins.tab]
    ELSE [node |-> n,
          errs |-> IF n.type.storage = "EvqPointCoord"
                   THEN profileRequires(currentLoc, {"ENoProfile"}, 120, "gl_PointCoord")
                   ELSE <<>>,
          tab |-> tab]

--------------------------------------------------------------------------
(* Constant folding of an index or a swizzle into a constant *)

\* element k (from 0) of a constant array; what a read outside it yields is
\* not defined, and ub stands for it
ReadConst(arr, k, ub) == IF k \in 0..(Len(arr) - 1) THEN arr[k + 1] ELSE ub

\* TConstUnionArray(arr, start, size): the window of size elements from start
ConstWindow(arr, start, size, ub) == [i \in 1..size |-> ReadConst(arr, start + i - 1, ub)]

\* addConstVectorNode's range test of one offset
VectorIndexOutOfRange(offset, n) == offset >= getObjectSize(n.type)

\* addConstVectorNode(fields, node, loc): [node, errs, reads]
addConstVectorNode(flds, n, loc, ub) ==
    IF n.kind # "ConstantUnion"
    THEN [node |-> NullNode, errs |-> <<error(loc, "Cannot offset into the vector", "Error")>>,
          reads |-> <<>>]
    ELSE LET fixed == [i \in 1..flds.num |->
                          IF VectorIndexOutOfRange(flds.offsets[i], n) THEN 0 ELSE flds.offsets[i]]
             bad == SelectSeq([i \in 1..flds.num |-> flds.offsets[i]],
                              LAMBDA o : VectorIndexOutOfRange(o, n))
         IN  [node |-> addConstantUnion([i \in 1..flds.num |-> ReadConst(n.constArray, fixed[i], ub)],
                                        n.type),
              errs |-> [i \in 1..Len(bad) |-> error(loc, "vector index out of range", "[")],
              reads |-> [i \in 1..flds.num |-> [offset |-> fixed[i], length |-> 1]]]

\* addConstMatrixNode(index, node, loc): [node, errs, reads]
addConstMatrixNode(index, n, loc, ub) ==
    LET outOfRange == index >= n.type.matrixCols
        idx == IF outOfRange THEN 0 ELSE index
        rangeErrs == IF outOfRange
                     THEN <<error(loc, "matrix field selection out of range", "[")>> ELSE <<>>
        size == n.type.matrixRows
    IN  IF n.kind = "ConstantUnion"
        THEN [node |-> addConstantUnion(ConstWindow(n.constArray, size * idx, size, ub), n.type),
              errs |-> rangeErrs,
              reads |-> <<[offset |-> size * idx, length |-> size]>>]
        ELSE [node |-> NullNode,
              errs |-> rangeErrs \o <<error(loc, "Cannot offset into the matrix", "Error")>>,
              reads |-> <<>>]

\* addConstArrayNode(index, node, loc): [node, errs, reads]
addConstArrayNode(index, n, loc, ub) ==
    LET outOfRange == index >= n.type.arraySize \/ index < 0
        idx == IF outOfRange THEN 0 ELSE index
        rangeErrs == IF outOfRange
                     THEN <<error(loc, "array index out of range", "[")>> ELSE <<>>
        arrayElementSize == getObjectSize(dereference(n.type))
    IN  IF n.kind = "ConstantUnion"
        THEN [node |-> addConstantUnion(ConstWindow(n.constArray, arrayElementSize * idx,
                                                    arrayElementSize, ub), n.type),
              errs |-> rangeErrs,
              reads |-> <<[offset |-> arrayElementSize * idx, length |-> arrayElementSize]>>]
        ELSE [node |-> NullNode,
              errs |-> rangeErrs \o <<error(loc, "Cannot offset into the array", "Error")>>,
              reads |-> <<>>]

\* the position (from 1) of the first field of that name, past the end when none has it
FieldIndex(fieldList, identifier) ==
    LET hits == { i \in 1..Len(fieldList) : fieldList[i].fieldName = identifier }
    IN  IF hits = {} THEN Len(fieldList) + 1 ELSE CHOOSE i \in hits : \A j \in hits : i <= j

\* addConstStruct(identifier, node, loc), called for a field the structure has:
\* [node, errs, reads]
addConstStruct(identifier, n, loc, ub) ==
    LET fieldList == n.type.struct
        index == FieldIndex(fieldList, identifier)
        instanceOffset == SumObjectSizes(SubSeq(fieldList, 1, index - 1))
        instanceSize == getObjectSize(fieldList[index].type)
    IN  IF n.kind = "ConstantUnion"
        THEN [node |-> addConstantUnion(ConstWindow(n.constArray, instanceOffset, instanceSize, ub),
                                        n.type),
              errs |-> <<>>,
              reads |-> <<[offset |-> instanceOffset, length |-> instanceSize]>>]
        ELSE [node |-> NullNode,
              errs |-> <<error(loc, "Cannot offset into the structure", "Error")>>,
              reads |-> <<>>]

--------------------------------------------------------------------------
(* handleBracketDereference *)

\* updateMaxArraySize(loc, node, index): [errs, tab]
updateMaxArraySize(loc, n, index, tab) ==
    LET symbol == find(tab, n.name)
        level == FindLevel(tab, n.name)
        grown == [symbol EXCEPT !.type.maxArraySize = index + 1]
    IN  IF n.kind # "Symbol" THEN [errs |-> <<>>, tab |-> tab]
        ELSE IF n.type.maxArraySize > index THEN [errs |-> <<>>, tab |-> tab]
        ELSE IF symbol.kind = "None" THEN [errs |-> <<>>, tab |-> tab]
        ELSE IF symbol.kind = "Function"
        THEN [errs |-> <<error(loc, "array variable name expected", n.name)>>, tab |-> tab]
        ELSE IF symbol.readOnly
        THEN [errs |-> <<>>, tab |-> copyUp(tab, grown)]
        ELSE [errs |-> <<>>, tab |-> replaceAt(tab, level, grown)]

\* the test that decides whether the index is saved for finalize()
IndexLimitApplies(base) ==
    LET t == base.type
    IN  \/ ~limits.generalSamplerIndexing /\ t.basic = "EbtSampler"
        \/ ~limits.generalUniformIndexing /\ isUniform(t) /\ language # "EShLangVertex"
        \/ /\ ~limits.generalAttributeMatrixVectorIndexing
           /\ isPipeInput(t) /\ language = "EShLangVertex"
           /\ (isMatrix(t) \/ isVector(t))
        \/ ~limits.generalConstantMatrixVectorIndexing /\ base.kind = "ConstantUnion"
        \/ /\ ~limits.generalVariableIndexing
           /\ ~isUniform(t) /\ ~isPipeInput(t) /\ ~isPipeOutput(t)
           /\ t.storage # "EvqConst"
        \/ ~limits.generalVaryingIndexing /\ (isPipeInput(t) \/ isPipeOutput(t))

\* a queue that takes the index of every call, a recovered one included
IndexToCheckAlways(result, base, index) ==
    IF anyIndexLimits /\ IndexLimitApplies(base) THEN <<index>> ELSE <<>>

\* what a call adds to needsIndexLimitationChecking: the index, when the call
\* built a result (result is 0 when it will recover), the ES 2.0 limits are
\* on and one of them applies to the base
IndexToCheck(result, base, index) ==
    IF result.kind # "Null" /\ anyIndexLimits /\ IndexLimitApplies(base)
    THEN <<index>> ELSE <<>>

\* the range test of a constant index into a sized array
ArrayIndexOutOfRange(indexValue, t) == indexValue >= t.arraySize \/ indexValue < 0

\* the errors of the branch for a constant index that is not folded, and the
\* symbol table updateMaxArraySize leaves
DirectIndexChecks(loc, base, indexValue, tab) ==
    LET t == base.type
        rangeErrs == IF /\ ~isArray(t)
                        /\ \/ isVector(t) /\ t.vectorSize <= indexValue
                           \/ isMatrix(t) /\ t.matrixCols <= indexValue
                     THEN <<error(loc, "index out of range", "[")>> ELSE <<>>
        upd == updateMaxArraySize(loc, base, indexValue, tab)
    IN  IF ~isArray(t) THEN [errs |-> rangeErrs, tab |-> tab]
        ELSE IF t.arraySize = 0 THEN [errs |-> rangeErrs \o upd.errs, tab |-> upd.tab]
        ELSE IF ArrayIndexOutOfRange(indexValue, t)
        THEN [errs |-> rangeErrs \o <<error(loc, "array index out of range", "[")>>, tab |-> tab]
        ELSE [errs |-> rangeErrs, tab |-> tab]

\* the errors of the branch for an index that is no constant
IndirectIndexErrs(base) ==
    LET t == base.type
    IN  (IF isArray(t) /\ t.arraySize = 0
         THEN <<error(currentLoc, "array must be redeclared with a size before being indexed with a variable", "[")>>
         ELSE <<>>)
        \o (IF t.basic = "EbtBlock"
            THEN requireProfile(currentLoc, Profiles \ {"EEsProfile"}, "variable indexing block array")
            ELSE <<>>)
        \o (IF t.basic = "EbtSampler" /\ version >= 130
            THEN requireProfile(currentLoc, Desktop, "variable indexing sampler array")
                 \o profileRequires(currentLoc, Desktop, 400, "variable indexing sampler array")
            ELSE <<>>)

\* handleBracketDereference(loc, base, index): [result, errs, tab, enq, reads]
handleBracketDereference(loc, base0, index, tab, ub) ==
    LET checked(vc) ==
            LET base == vc.node
                t == base.type
                indexConst == index.type.storage = "EvqConst"
                bothConst == t.storage = "EvqConst" /\ indexConst
                indexValue == index.constArray[1]
                notIndexable == ~isArray(t) /\ ~isMatrix(t) /\ ~isVector(t)
                constIndexed(folded) ==
                    [node |-> folded.node, errs |-> folded.errs, tab |-> vc.tab,
                     reads |-> folded.reads]
                directIndexed(direct) ==
                    [node |-> addIndex("EOpIndexDirect", base, index), errs |-> direct.errs,
                     tab |-> direct.tab, reads |-> <<>>]
                newType == dereference([t EXCEPT !.storage = IF bothConst THEN "EvqConst" ELSE @])
                typed(raw) ==
                    [result |-> IF raw.node.kind = "Null" THEN RecoveryNode
                                ELSE setType(raw.node, newType),
                     errs |-> vc.errs \o raw.errs,
                     tab |-> raw.tab,
                     enq |-> IndexToCheck(raw.node, base, index),
                     reads |-> raw.reads,
                     base |-> base]
            IN  typed(IF notIndexable
                      THEN [node |-> NullNode,
                            errs |-> <<error(loc, " left of '[' is not of type array, matrix, or vector ",
                                             IF base.kind = "Symbol" THEN base.name ELSE "expression")>>,
                            tab |-> vc.tab, reads |-> <<>>]
                      ELSE IF bothConst
                      THEN constIndexed(IF isArray(t) THEN addConstArrayNode(indexValue, base, loc, ub)
                                        ELSE IF isVector(t)
                                        THEN addConstVectorNode([num |-> 1, offsets |-> <<indexValue>>],
                                                                base, loc, ub)
                                        ELSE addConstMatrixNode(indexValue, base, loc, ub))
                      ELSE IF indexConst
                      THEN directIndexed(DirectIndexChecks(loc, base, indexValue, vc.tab))
                      ELSE [node |-> addIndex("EOpIndexIndirect", base, index),
                            errs |-> IndirectIndexErrs(base), tab |-> vc.tab, reads |-> <<>>])
    IN  checked(variableCheck(base0, tab))

--------------------------------------------------------------------------
(* Constructors *)

VecOps ==
    [EbtFloat  |-> <<"EOpConstructFloat", "EOpConstructVec2", "EOpConstructVec3", "EOpConstructVec4">>,
     EbtDouble |-> <<"EOpConstructDouble", "EOpConstructDVec2", "EOpConstructDVec3", "EOpConstructDVec4">>,
     EbtInt    |-> <<"EOpConstructInt", "EOpConstructIVec2", "EOpConstructIVec3", "EOpConstructIVec4">>,
     EbtUint   |-> <<"EOpConstructUint", "EOpConstructUVec2", "EOpConstructUVec3", "EOpConstructUVec4">>,
     EbtBool   |-> <<"EOpConstructBool", "EOpConstructBVec2", "EOpConstructBVec3", "EOpConstructBVec4">>]

\* the matrix constructors, columns 2..4 by rows 2..4
MatOps ==
    [EbtFloat  |-> <<<<"EOpConstructMat2x2", "EOpConstructMat2x3", "EOpConstructMat2x4">>,
                     <<"EOpConstructMat3x2", "EOpConstructMat3x3", "EOpConstructMat3x4">>,
                     <<"EOpConstructMat4x2", "EOpConstructMat4x3", "EOpConstructMat4x4">>>>,
     EbtDouble |-> <<<<"EOpConstructDMat2x2", "EOpConstructDMat2x3", "EOpConstructDMat2x4">>,
                     <<"EOpConstructDMat3x2", "EOpConstructDMat3x3", "EOpConstructDMat3x4">>,
                     <<"EOpConstructDMat4x2", "EOpConstructDMat4x3", "EOpConstructDMat4x4">>>>]

MatrixConstructors ==
    { MatOps[b][c][r] : b \in {"EbtFloat", "EbtDouble"}, c \in 1..3, r \in 1..3 }

\* mapTypeToConstructorOp(type); op is left unset when no case of a switch
\* matches, and uninit stands for what it then holds
mapTypeToConstructorOp(type, uninit) ==
    IF isStruct(type) THEN "EOpConstructStruct"
    ELSE IF type.basic \in {"EbtFloat", "EbtDouble"} /\ isMatrix(type)
    THEN IF type.matrixCols \in 2..4 /\ type.matrixRows \in 2..4
         THEN MatOps[type.basic][type.matrixCols - 1][type.matrixRows - 1]
         ELSE uninit
    ELSE IF type.basic \in DOMAIN VecOps
    THEN IF type.vectorSize \in 1..4 THEN VecOps[type.basic][type.vectorSize] ELSE uninit
    ELSE "EOpNull"

\* constructorError(loc, node, function, op, type): [err, type, errs]; function
\* is the call being built, [type, params], params being the argument types
RECURSIVE ParamSizes(_)
ParamSizes(params) ==
    IF params = <<>> THEN 0
    ELSE getObjectSize(Head(params)) + ParamSizes(Tail(params))

\* 'full' after the first i arguments
FullAfter(function, op, i) ==
    \E j \in 1..i : /\ op # "EOpConstructStruct" /\ ~isArray(function.type)
                    /\ ParamSizes(SubSeq(function.params, 1, j)) >= getObjectSize(function.type)

\* the test that ends constructorError for a matrix built from a matrix
MatrixInMatrixReturns(matrixInMatrix, type) == matrixInMatrix /\ ~isArray(type)

constructorError(loc, n, function, op) ==
    LET params == function.params
        count == Len(params)
        size == ParamSizes(params)
        constructingMatrix == op \in MatrixConstructors
        matrixInMatrix == constructingMatrix /\ \E i \in 1..count : isMatrix(params[i])
        overFull == \E i \in 2..count : FullAfter(function, op, i - 1)
        constType == \A i \in 1..count : params[i].storage = "EvqConst"
        arrayArg == \E i \in 1..count : isArray(params[i])
        qualified == IF constType THEN [function.type EXCEPT !.storage = "EvqConst"]
                     ELSE function.type
        type == IF isArray(qualified) /\ qualified.arraySize = 0
                THEN [qualified EXCEPT !.arraySize = count]
                ELSE qualified
        fail(reason) == [err |-> TRUE, type |-> type, errs |-> <<error(loc, reason, "constructor")>>]
    IN  IF isArray(type) /\ type.arraySize # count
        THEN fail("array constructor needs one argument per array element")
        ELSE IF arrayArg /\ op # "EOpConstructStruct"
        THEN fail("constructing from a non-dereferenced array")
        ELSE IF MatrixInMatrixReturns(matrixInMatrix, type)
        THEN [err |-> FALSE, type |-> type,
              errs |-> profileRequires(loc, {"ENoProfile"}, 120, "constructing matrix from matrix")]
        ELSE IF overFull
        THEN fail("too many arguments")
        ELSE IF op = "EOpConstructStruct" /\ ~isArray(type) /\ Len(type.struct) # count
        THEN fail("Number of constructor parameters does not match the number of structure fields")
        ELSE IF \/ op # "EOpConstructStruct" /\ size # 1 /\ size < getObjectSize(type)
                \/ op = "EOpConstructStruct" /\ size < getObjectSize(type)
        THEN fail("not enough data provided for construction")
        ELSE IF n.kind = "Null"
        THEN fail("constructor argument does not have a type")
        ELSE IF op # "EOpConstructStruct" /\ n.type.basic = "EbtSampler"
        THEN fail("cannot convert a sampler")
        ELSE IF n.type.basic = "EbtVoid"
        THEN fail("cannot convert a void")
        ELSE [err |-> FALSE, type |-> type, errs |-> <<>>]

\* growAggregate: the argument list of a call with several arguments
growAggregate(children) ==
    [NullNode EXCEPT !.kind = "Aggregate", !.op = "EOpNull", !.children = children,
                     !.type = TType("EbtFloat", "EvqTemporary", 1, 0, 0)]

RECURSIVE FlattenConst(_)
FlattenConst(children) ==
    IF children = <<>> THEN <<>>
    ELSE Head(children).constArray \o FlattenConst(Tail(children))

\* the constant a constructor of all-constant arguments folds to: one scalar is
\* replicated (on the diagonal for a matrix), a list is taken in order
FoldConstructor(values, type) ==
    LET size == getObjectSize(type)
    IN  IF Len(values) = 1 /\ isMatrix(type)
        THEN [i \in 1..size |-> IF (i - 1) \div type.matrixRows = (i - 1) % type.matrixRows
                                THEN values[1] ELSE 0]
        ELSE IF Len(values) = 1 THEN [i \in 1..size |-> values[1]]
        ELSE [i \in 1..size |-> IF i <= Len(values) THEN values[i] ELSE 0]

\* setAggregateOperator(node, op, type): make the node an aggregate of that
\* operator, and fold a constructor whose children are all constant
setAggregateOperator(n, op, type) ==
    LET children == IF n.kind = "Aggregate" /\ n.op = "EOpNull" THEN n.children ELSE <<n>>
        allConst == \A i \in 1..Len(children) : children[i].kind = "ConstantUnion"
    IN  IF allConst /\ op # "EOpFunctionCall" /\ children # <<>>
        THEN addConstantUnion(FoldConstructor(FlattenConst(children), type),
                              [type EXCEPT !.storage = "EvqConst"])
        ELSE [NullNode EXCEPT !.kind = "Aggregate", !.op = op, !.type = type,
                              !.children = children]

Convertible == {"EbtFloat", "EbtDouble", "EbtInt", "EbtUint", "EbtBool"}

\* addUnaryMath(basicOp, node) for a constructor's conversion to basic
addUnaryMath(basic, n) ==
    IF n.type.basic \notin Convertible \/ isArray(n.type) \/ isStruct(n.type) THEN NullNode
    ELSE IF n.type.basic = basic THEN n
    ELSE IF n.kind = "ConstantUnion" THEN setType(n, [n.type EXCEPT !.basic = basic])
    ELSE [NullNode EXCEPT !.kind = "Unary", !.op = "EOpConvert", !.children = <<n>>,
                          !.type = [n.type EXCEPT !.basic = basic]]

\* the shape two types are compared by (TType::operator==)
Shape(t) == <<t.basic, t.vectorSize, t.matrixCols, t.matrixRows, t.isArray, t.arraySize, t.struct>>

Widens == {<<"EbtInt", "EbtUint">>, <<"EbtInt", "EbtFloat">>, <<"EbtUint", "EbtFloat">>,
           <<"EbtInt", "EbtDouble">>, <<"EbtUint", "EbtDouble">>, <<"EbtFloat", "EbtDouble">>}

\* addConversion(EOpConstructStruct, type, node): an implicit widening, or none
addConversion(type, n) ==
    IF n.type.basic = type.basic THEN n
    ELSE IF <<n.type.basic, type.basic>> \in Widens /\ ~isArray(n.type) /\ ~isStruct(n.type)
    THEN addUnaryMath(type.basic, n)
    ELSE NullNode

\* constructBuiltIn(type, op, node, loc, subset): [node, errs]
constructBuiltIn(type, op, n, loc, subset) ==
    LET known == { b \in DOMAIN VecOps :
                     op \in Range(VecOps[b]) \/ (b \in DOMAIN MatOps /\ op \in MatrixConstructors
                                                 /\ \E c \in 1..3 : op \in Range(MatOps[b][c])) }
        basic == CHOOSE b \in known : TRUE
        newNode == addUnaryMath(basic, n)
    IN  IF known = {}
        THEN [node |-> NullNode, errs |-> <<error(loc, "unsupported construction", "")>>]
        ELSE IF newNode.kind = "Null"
        THEN [node |-> NullNode, errs |-> <<error(loc, "can't convert", "constructor")>>]
        ELSE IF subset \/ (newNode # n /\ Shape(newNode.type) = Shape(type))
        THEN [node |-> newNode, errs |-> <<>>]
        ELSE [node |-> setAggregateOperator(newNode, op, type), errs |-> <<>>]

\* constructStruct(node, type, paramCount, loc): [node, errs]
constructStruct(n, type, paramCount, loc) ==
    LET converted == addConversion(type, n)
    IN  IF converted.kind = "Null" \/ Shape(converted.type) # Shape(type)
        THEN [node |-> NullNode, errs |-> <<error(loc, "", "constructor")>>]
        ELSE [node |-> converted, errs |-> <<>>]

\* the construction of argument i (from 1) of a list
ConstructArg(loc, p, type, op, i) ==
    IF isArray(type) THEN constructStruct(p, dereference(type), i, loc)
    ELSE IF op = "EOpConstructStruct" THEN constructStruct(p, type.struct[i].type, i, loc)
    ELSE constructBuiltIn(type, op, p, loc, TRUE)

\* addConstructor(loc, node, type, op): [node, errs]
addConstructor(loc, n, type, op) ==
    LET singleArg == ~(n.kind = "Aggregate" /\ n.op = "EOpNull" /\ Len(n.children) # 1)
        ofOne(single) ==
            [node |-> IF single.node.kind # "Null" /\ (isArray(type) \/ op = "EOpConstructStruct")
                      THEN setAggregateOperator(single.node, "EOpConstructStruct", type)
                      ELSE single.node,
             errs |-> single.errs]
        ofList(args) ==
            LET failed == { i \in 1..Len(n.children) : args[i].node.kind = "Null" }
                firstFailed == CHOOSE i \in failed : \A j \in failed : i <= j
            IN  IF failed # {}
                THEN [node |-> NullNode, errs |-> args[firstFailed].errs]
                ELSE [node |-> setAggregateOperator(
                                   [n EXCEPT !.children = [i \in 1..Len(n.children) |-> args[i].node]],
                                   op, type),
                      errs |-> <<>>]
    IN  IF n.kind = "Null" THEN [node |-> NullNode, errs |-> <<>>]
        ELSE IF singleArg
        THEN ofOne(IF isArray(type) THEN constructStruct(n, dereference(type), 1, loc)
                   ELSE IF op = "EOpConstructStruct"
                   THEN constructStruct(n, type.struct[1].type, 1, loc)
                   ELSE constructBuiltIn(type, op, n, loc, FALSE))
        ELSE ofList([i \in 1..Len(n.children) |-> ConstructArg(loc, n.children[i], type, op, i)])

--------------------------------------------------------------------------
(* handleDotDereference *)

LengthMethod == <<"l", "e", "n", "g", "t", "h">>

\* the vector size handleDotDereference gives a swizzle's type: (int) field.size()
SwizzleSize(field, flds) == Len(field)

\* handleDotDereference(loc, base, field): [result, errs, tab, reads, flds, base]
handleDotDereference(loc, base0, field, tab, ub, uninit) ==
    LET checked(vc) ==
        LET base == vc.node
            t == base.type
            scalarErrs == IF isScalar(t)
                          THEN requireProfile(loc, Desktop, "scalar swizzle")
                               \o profileRequires(loc, Desktop, 420, "scalar swizzle")
                          ELSE <<>>
            found == FieldIndex(t.struct, field) <= Len(t.struct)
            i == FieldIndex(t.struct, field)
            none == [num |-> 0, offsets |-> <<>>]
            out(n, errs, reads, f) == [result |-> n, errs |-> vc.errs \o errs, tab |-> vc.tab,
                                       reads |-> reads, flds |-> f, base |-> base]
            constructed(ctor, pv, flds) == out(ctor.node, scalarErrs \o pv.errs \o ctor.errs, <<>>, flds)
            constSwizzle(cv, pv, flds) ==
                out(IF cv.node.kind = "Null" THEN base
                    ELSE setType(cv.node, TType(t.basic, "EvqConst", SwizzleSize(field, flds), 0, 0)),
                    pv.errs \o cv.errs, cv.reads, flds)
            constField(cs) ==
                out(IF cs.node.kind = "Null" THEN base
                    ELSE setType(cs.node, [t.struct[i].type EXCEPT !.storage = "EvqConst"]),
                    cs.errs, cs.reads, none)
            selected(pv, flds) ==
                LET swType == TType(t.basic, "EvqTemporary", flds.num, 0, 0)
                    index == addConstantUnion(<<flds.offsets[1]>>, TType("EbtInt", "EvqConst", 1, 0, 0))
                IN  IF isScalar(t)
                    THEN IF flds.num = 1
                         THEN out(base0, scalarErrs \o pv.errs, <<>>, flds)
                         ELSE constructed(addConstructor(loc, base, swType,
                                                         mapTypeToConstructorOp(swType, uninit)),
                                          pv, flds)
                    ELSE IF t.storage = "EvqConst"
                    THEN constSwizzle(addConstVectorNode(flds, base, loc, ub), pv, flds)
                    ELSE IF flds.num = 1
                    THEN out(setType(addIndex("EOpIndexDirect", base, index),
                                     TType(t.basic, "EvqTemporary", 1, 0, 0)),
                             pv.errs, <<>>, flds)
                    ELSE out(setType(addIndex("EOpVectorSwizzle", base, addSwizzle(flds)),
                                     TType(t.basic, "EvqTemporary", SwizzleSize(field, flds), 0, 0)),
                             pv.errs, <<>>, flds)
            parsed(pv) == selected(pv, IF pv.ok THEN pv.fields ELSE [num |-> 1, offsets |-> <<0>>])
        IN  IF isArray(t)
            THEN IF field = LengthMethod
                 THEN out(addMethod(base, TType("EbtInt", "EvqTemporary", 1, 0, 0), field),
                          profileRequires(loc, {"ENoProfile"}, 120, ".length")
                          \o profileRequires(loc, {"EEsProfile"}, 300, ".length"), <<>>, none)
                 ELSE out(base0, <<error(loc, "only the length method is supported for array", field)>>,
                          <<>>, none)
            ELSE IF isScalar(t) \/ isVector(t)
            THEN parsed(parseVectorFields(loc, field, t.vectorSize))
            ELSE IF isMatrix(t)
            THEN out(base0, <<error(loc, "field selection not allowed on matrix", ".")>>, <<>>, none)
            ELSE IF t.basic \in {"EbtStruct", "EbtBlock"}
            THEN IF t.struct = <<>>
                 THEN out(base0, <<error(loc, "structure has no fields", "Internal Error")>>, <<>>, none)
                 ELSE IF ~found
                 THEN out(base0, <<error(loc, " no such field in structure", field)>>, <<>>, none)
                 ELSE IF t.storage = "EvqConst"
                 THEN constField(addConstStruct(field, base, loc, ub))
                 ELSE out(setType(addIndex("EOpIndexDirectStruct", base,
                                           addConstantUnion(<<i - 1>>, TType("EbtInt", "EvqConst", 1, 0, 0))),
                                  t.struct[i].type),
                          <<>>, <<>>, none)
            ELSE out(base0, <<error(loc, " dot operator does not operater on this type:", field)>>,
                     <<>>, none)
    IN  checked(variableCheck(base0, tab))

--------------------------------------------------------------------------
(* handleFunctionCall *)

\* the message lValueErrorCheck has for a storage qualifier or a basic type
LValueMessage(n) ==
    IF n.type.storage \in {"EvqConst", "EvqConstReadOnly"} THEN "can't modify a const"
    ELSE IF n.type.storage = "EvqVaryingIn" THEN "can't modify shader input"
    ELSE IF n.type.storage = "EvqUniform" THEN "can't modify a uniform"
    ELSE IF n.type.storage = "EvqInstanceId" THEN "can't modify gl_InstanceID"
    ELSE IF n.type.storage = "EvqVertexId" THEN "can't modify gl_VertexID"
    ELSE IF n.type.storage = "EvqFace" THEN "can't modify gl_FrontFace"
    ELSE IF n.type.storage = "EvqFragCoord" THEN "can't modify gl_FragCoord"
    ELSE IF n.type.storage = "EvqPointCoord" THEN "can't modify gl_PointCoord"
    ELSE IF n.type.basic = "EbtSampler" THEN "can't modify a sampler"
    ELSE IF n.type.basic = "EbtVoid" THEN "can't modify void"
    ELSE ""

\* a swizzle's offsets repeat one
HasDuplicate(offsets) ==
    \E i, j \in 1..Len(offsets) : i < j /\ offsets[i].constArray = offsets[j].constArray

\* lValueErrorCheck(loc, op, node): [err, errs]
RECURSIVE lValueErrorCheck(_, _, _)
lValueErrorCheck(loc, op, n) ==
    LET left == lValueErrorCheck(loc, op, n.children[1])
        required == [err |-> TRUE, errs |-> <<error(loc, " l-value required", op)>>]
    IN  IF n.kind = "Binary"
        THEN IF n.op \in {"EOpIndexDirect", "EOpIndexIndirect", "EOpIndexDirectStruct"}
             THEN left
             ELSE IF n.op = "EOpVectorSwizzle"
             THEN IF ~left.err /\ HasDuplicate(n.children[2].children)
                  THEN [err |-> TRUE,
                        errs |-> <<error(loc, " l-value of swizzle cannot have duplicate components", op)>>]
                  ELSE left
             ELSE required
        ELSE IF LValueMessage(n) = "" /\ n.kind # "Symbol" THEN required
        ELSE IF LValueMessage(n) = "" THEN [err |-> FALSE, errs |-> <<>>]
        ELSE required

\* findFunction(loc, call, builtIn): [function, builtIn, errs], function being
\* NoSymbol when none is found
findFunction(loc, fnCall, tab) ==
    LET symbol == find(tab, fnCall.mangledName)
        builtIn == findBuiltIn(tab, fnCall.mangledName)
    IN  IF symbol.kind = "None"
        THEN [function |-> NoSymbol, builtIn |-> builtIn,
              errs |-> <<error(loc, "no matching overloaded function found", fnCall.name)>>]
        ELSE IF symbol.kind # "Function"
        THEN [function |-> NoSymbol, builtIn |-> builtIn,
              errs |-> <<error(loc, "function name expected", fnCall.name)>>]
        ELSE [function |-> symbol, builtIn |-> builtIn, errs |-> <<>>]

\* addBuiltInFunctionCall(loc, op, unary, node, returnType): none when the
\* operand's type does not fit the operation
addBuiltInFunctionCall(op, n, returnType) ==
    IF n.kind = "Null" \/ n.type.basic \notin Convertible \/ isArray(n.type) \/ isStruct(n.type)
    THEN NullNode
    ELSE [NullNode EXCEPT !.kind = IF n.kind = "Aggregate" THEN "Aggregate" ELSE "Unary",
                          !.op = op, !.type = returnType,
                          !.children = IF n.kind = "Aggregate" THEN n.children ELSE <<n>>]

RECURSIVE OutParamErrs(_, _, _, _)
\* the l-value checks of the arguments from i on that go to out and inout parameters
OutParamErrs(loc, params, args, i) ==
    IF i > Len(params) THEN <<>>
    ELSE LET lv == lValueErrorCheck(loc, "assign", args[i])
             here == IF params[i].storage \in {"EvqOut", "EvqInOut"}
                     THEN lv.errs \o (IF lv.err
                                      THEN <<error(loc, "Constant value cannot be passed for 'out' or 'inout' parameters.", "Error")>>
                                      ELSE <<>>)
                     ELSE <<>>
         IN  here \o OutParamErrs(loc, params, args, i + 1)

\* nonOpBuiltInCheck(loc, fnCandidate, callNode): the errors it reports
nonOpBuiltInCheck(loc, fnCandidate, callNode) ==
    LET last == fnCandidate.params[Len(fnCandidate.params)]
        arg == callNode.children[Len(fnCandidate.params)]
    IN  IF fnCandidate.name # "textureGather" THEN <<>>
        ELSE requireProfile(loc, Profiles \ {"EEsProfile"}, "texture gather function")
             \o profileRequires(loc, Profiles \ {"EEsProfile"}, 400, "texture gather function")
             \o (IF last.basic = "EbtInt" /\ isScalar(last)
                 THEN IF arg.kind = "ConstantUnion"
                      THEN IF arg.constArray[1] < 0 \/ arg.constArray[1] > 3
                           THEN <<error(loc, "must be 0, 1, 2, or 3", "texture gather component")>>
                           ELSE <<>>
                      ELSE <<error(loc, "must be a constant", "texture gather component")>>
                 ELSE <<>>)

\* the generic error recovery that ends handleFunctionCall
GenericRecovery(result) == IF result.kind = "Null" THEN RecoveryNode ELSE result

\* handleFunctionCall(loc, fnCall, intermNode, intermAggregate): [result, errs];
\* fnCall is [name, mangledName, builtInOp, type, params]
handleFunctionCall(loc, fnCall, intermNode, tab) ==
    LET op == fnCall.builtInOp
        sized == intermNode.kind # "Null" /\ isArray(intermNode.type)
                 /\ intermNode.type.arraySize # 0
        constructed(ce, ctor) ==
            [node |-> ctor.node,
             errs |-> ce.errs \o ctor.errs
                      \o (IF ctor.node.kind = "Null"
                          THEN <<error(loc, "cannot construct with these arguments", "")>>
                          ELSE <<>>)]
        checkedCtor(ce) ==
            IF ce.err THEN [node |-> NullNode, errs |-> ce.errs]
            ELSE constructed(ce, addConstructor(loc, intermNode, ce.type, op))
        builtIn(builtInCall) ==
            [node |-> builtInCall,
             errs |-> IF builtInCall.kind = "Null"
                      THEN <<error(loc, " wrong operand type", "Internal Error")>>
                      ELSE <<>>]
        userCall(ff, fnCandidate, callNode) ==
            [node |-> callNode,
             errs |-> OutParamErrs(loc, fnCandidate.params, callNode.children, 1)
                      \o (IF ff.builtIn THEN nonOpBuiltInCheck(loc, fnCandidate, callNode)
                          ELSE <<>>)]
        candidate(ff, fnCandidate) ==
            IF fnCandidate.kind = "None"
            THEN [node |-> RecoveryNode, errs |-> ff.errs]
            ELSE IF ff.builtIn /\ fnCandidate.builtInOp # "EOpNull"
            THEN builtIn(addBuiltInFunctionCall(fnCandidate.builtInOp, intermNode, fnCandidate.type))
            ELSE userCall(ff, fnCandidate,
                          [setAggregateOperator(intermNode, "EOpFunctionCall", fnCandidate.type)
                              EXCEPT !.name = fnCandidate.mangledName])
        looked(ff) == candidate(ff, ff.function)
        recovered(raw) == [result |-> GenericRecovery(raw.node), errs |-> raw.errs]
    IN  recovered(
            IF op = "EOpArrayLength"
            THEN [node |-> addConstantUnion(<<IF sized THEN intermNode.type.arraySize ELSE 1>>,
                                            TType("EbtInt", "EvqConst", 1, 0, 0)),
                  errs |-> (IF Len(fnCall.params) > 0
                            THEN <<error(loc, "method does not accept any arguments", fnCall.name)>>
                            ELSE <<>>)
                           \o (IF sized THEN <<>> ELSE <<error(loc, "", fnCall.name)>>)]
            ELSE IF op # "EOpNull"
            THEN checkedCtor(constructorError(loc, intermNode, fnCall, op))
            ELSE looked(findFunction(loc, fnCall, tab)))

--------------------------------------------------------------------------
(* Shorthands for the types the handlers are tried on *)

FloatType == TType("EbtFloat", "EvqTemporary", 1, 0, 0)
Vec3Type == TType("EbtFloat", "EvqTemporary", 3, 0, 0)
VoidType == TType("EbtVoid", "EvqTemporary", 1, 0, 0)

Const(t) == [t EXCEPT !.storage = "EvqConst"]

--------------------------------------------------------------------------
(* The expression handlers, run on one postfix expression *)

\* how many dereferences and calls follow the variable of an expression
MaxDerefs == 2

Mat2Type == TType("EbtFloat", "EvqTemporary", 0, 2, 2)
IntType == TType("EbtInt", "EvqTemporary", 1, 0, 0)

SampleStruct ==
    <<[fieldName |-> <<"a">>, type |-> FloatType],
      [fieldName |-> <<"b">>, type |-> TType("EbtFloat", "EvqTemporary", 2, 0, 0)]>>

WithId(sym, id) == [sym EXCEPT !.uniqueId = id]

\* the declarations the expressions are written over: built-ins at the
\* built-in level, the shader's own at the global level
BuiltInSymbols ==
    { WithId([TVariable("gl_TexCoord",
                        ArrayOf(TType("EbtFloat", "EvqVaryingIn", 4, 0, 0), 0))
                 EXCEPT !.readOnly = TRUE], 1),
      WithId([TFunction("sin", FloatType, "EOpSin", <<[FloatType EXCEPT !.storage = "EvqIn"]>>)
                 EXCEPT !.readOnly = TRUE], 2),
      WithId([TFunction("noise", FloatType, "EOpNull", <<[FloatType EXCEPT !.storage = "EvqIn"]>>)
                 EXCEPT !.readOnly = TRUE], 3) }

GlobalSymbols ==
    { WithId(TVariable("v", Vec3Type), 4),
      WithId([TVariable("cv", Const(Vec3Type)) EXCEPT !.constArray = <<1, 2, 3>>], 5),
      WithId(TVariable("f", FloatType), 6),
      WithId(TVariable("smp", TType("EbtSampler", "EvqUniform", 1, 0, 0)), 7),
      WithId(TVariable("a", ArrayOf(FloatType, 3)), 8),
      WithId(TVariable("ua", ArrayOf(FloatType, 0)), 9),
      WithId([TVariable("ca", Const(ArrayOf(FloatType, 2))) EXCEPT !.constArray = <<5, 6>>], 10),
      WithId(TVariable("m", Mat2Type), 11),
      WithId([TVariable("cm", Const(Mat2Type)) EXCEPT !.constArray = <<1, 0, 0, 1>>], 12),
      WithId(TVariable("st", StructOf("EvqTemporary", SampleStruct)), 13),
      WithId([TVariable("cs", StructOf("EvqConst", SampleStruct)) EXCEPT !.constArray = <<7, 8, 9>>], 14),
      WithId(TFunction("fn", TType("EbtVoid", "EvqTemporary", 1, 0, 0), "EOpNull",
                       <<[FloatType EXCEPT !.storage = "EvqOut"]>>), 15),
      WithId(TVariable("anon@0", StructOf("EvqUniform", SampleStruct)), 16),
      WithId([NoSymbol EXCEPT !.kind = "AnonMember", !.name = "am", !.container = "anon@0",
                              !.memberNumber = 1], 17) }

SeededTable == [levels |-> <<BuiltInSymbols, GlobalSymbols>>, uniqueId |-> 17]

\* the identifiers an expression starts with; u is declared nowhere
ExprNames == {"v", "cv", "f", "smp", "a", "ua", "ca", "m", "cm", "st", "cs", "am",
              "gl_TexCoord", "u"}

DotFields == { <<"x">>, <<"z", "x", "y">>, <<"x", "x">>, <<"x", "k">>, <<"w">>,
               <<"x", "y", "z", "z", "y">>, <<"a">>, <<"c">>, LengthMethod }

IndexValues == {-1, 0, 1, 3}

\* the index expressions: integer constants, and a variable
IndexNodes ==
    { addConstantUnion(<<k>>, Const(IntType)) : k \in IndexValues }
    \cup { addSymbol(18, "i", IntType), addSymbol(19, "j", IntType) }

\* what a read outside a constant array may yield
UbValues == {0, 99}

\* what an unset operator may hold
UninitOps == {"EOpNull", "EOpConstructFloat"}

CtorTypes == { FloatType, TType("EbtFloat", "EvqTemporary", 2, 0, 0), Mat2Type }

CallNames == {"sin", "noise", "fn", "nofn"}

\* the calls the grammar may build with the expression n as their argument,
\* each with the argument node it hands to handleFunctionCall
CallsOn(n, uninit) ==
    { [fnCall |-> [name |-> "length", mangledName |-> "length(", builtInOp |-> "EOpArrayLength",
                   type |-> IntType, params |-> <<>>],
       intermNode |-> n.children[1]] : x \in IF n.kind = "Method" THEN {1} ELSE {} }
    \cup
    { [fnCall |-> [name |-> "", mangledName |-> "", builtInOp |-> mapTypeToConstructorOp(t, uninit),
                   type |-> t, params |-> <<n.type>>],
       intermNode |-> n] : t \in CtorTypes }
    \cup
    { [fnCall |-> [name |-> "", mangledName |-> "", builtInOp |-> mapTypeToConstructorOp(t, uninit),
                   type |-> t, params |-> <<n.type, Const(FloatType)>>],
       intermNode |-> growAggregate(<<n, addConstantUnion(<<1>>, Const(FloatType))>>)] : t \in CtorTypes }
    \cup
    { [fnCall |-> [name |-> nm, mangledName |-> MangledName(nm, <<n.type>>),
                   builtInOp |-> "EOpNull", type |-> FloatType, params |-> <<n.type>>],
       intermNode |-> n] : nm \in CallNames }

NoFields == [num |-> 0, offsets |-> <<>>]

Called(handler, base, field, index, flds, reads, errs) ==
    [handler |-> handler, base |-> base, field |-> field, index |-> index,
     flds |-> flds, reads |-> reads, errs |-> errs]

exprFrame == <<stringsNull, strings, lengths, retVal, afterEOF, tokensBeforeEOF, limits,
               anyIndexLimits, fieldVars, configVars, declVars, ctorVars,
               loopVars, helperVars>>

HandleVariable ==
    /\ pc = "expr_start"
    /\ \E string \in ExprNames :
         \E r \in {handleVariable(currentLoc, find(symbolTable, string), string, symbolTable)} :
             /\ node' = r.result
             /\ Report(r.errs)
             /\ call' = Called("handleVariable", NullNode, <<>>, NullNode, NoFields, <<>>, r.errs)
    /\ pc' = "expr"
    /\ UNCHANGED <<symbolTable, steps, needsIndexLimitationChecking, indexChecked, exprFrame>>

HandleBracketDereference ==
    /\ pc = "expr"
    /\ node.kind # "Null"
    /\ steps < MaxDerefs
    /\ \E index \in IndexNodes, ub \in UbValues :
         \E r \in {handleBracketDereference(currentLoc, node, index, symbolTable, ub)} :
             /\ node' = r.result
             /\ symbolTable' = r.tab
             /\ needsIndexLimitationChecking' = needsIndexLimitationChecking \o r.enq
             /\ Report(r.errs)
             /\ call' = Called("handleBracketDereference", r.base, <<>>, index, NoFields,
                               r.reads, r.errs)
    /\ steps' = steps + 1
    /\ UNCHANGED <<pc, indexChecked, exprFrame>>

HandleDotDereference ==
    /\ pc = "expr"
    /\ node.kind # "Null"
    /\ steps < MaxDerefs
    /\ \E field \in DotFields, ub \in UbValues, uninit \in UninitOps :
         \E r \in {handleDotDereference(currentLoc, node, field, symbolTable, ub, uninit)} :
             /\ node' = r.result
             /\ symbolTable' = r.tab
             /\ Report(r.errs)
             /\ call' = Called("handleDotDereference", r.base, field, NullNode, r.flds,
                               r.reads, r.errs)
    /\ steps' = steps + 1
    /\ UNCHANGED <<pc, needsIndexLimitationChecking, indexChecked, exprFrame>>

HandleFunctionCall ==
    /\ pc = "expr"
    /\ node.kind # "Null"
    /\ steps < MaxDerefs
    /\ \E uninit \in UninitOps : \E c \in CallsOn(node, uninit) :
         \E r \in {handleFunctionCall(currentLoc, c.fnCall, c.intermNode, symbolTable)} :
             /\ node' = r.result
             /\ Report(r.errs)
             /\ call' = Called("handleFunctionCall", c.intermNode, <<>>, NullNode, NoFields,
                               <<>>, r.errs)
    /\ steps' = steps + 1
    /\ UNCHANGED <<pc, symbolTable, needsIndexLimitationChecking, indexChecked, exprFrame>>

\* the end of the parse: finalize() runs over the indexes saved by the handlers
Finalize ==
    /\ pc = "expr"
    /\ indexChecked' = indexChecked \o finalizeVisits(needsIndexLimitationChecking)
    /\ Report(FinalizeErrs(finalizeVisits(needsIndexLimitationChecking)))
    /\ pc' = "finalized"
    /\ UNCHANGED <<symbolTable, node, call, steps, needsIndexLimitationChecking, exprFrame>>

\* the configurations and resource limits the expressions are handled under:
\* every configuration without limits, and the vertex one with them
ExprSetups ==
    { [config |-> c, limits |-> NoLimits] : c \in Configs }
    \cup { [config |-> c, limits |-> l] : c \in { x \in Configs : x.language = "EShLangVertex" },
                                         l \in LimitChoices \ {NoLimits} }

ExprInit ==
    /\ pc = "expr_start"
    /\ numErrors = 0
    /\ errLog = <<>>
    /\ afterEOF = FALSE
    /\ tokensBeforeEOF = 0
    /\ needsIndexLimitationChecking = <<>>
    /\ indexChecked = <<>>
    /\ \E s \in ExprSetups :
         /\ limits = s.limits
         /\ version = s.config.version
         /\ profile = s.config.profile
         /\ language = s.config.language
    /\ anyIndexLimits = ComputeAnyIndexLimits(limits)
    /\ DriverIdle
    /\ FieldsIdle
    /\ symbolTable = SeededTable
    /\ node = NullNode
    /\ call = NoCall
    /\ steps = 0
    /\ DeclIdle
    /\ CtorIdle
    /\ LoopIdle
    /\ HelperIdle

ExprNext ==
    \/ HandleVariable
    \/ HandleBracketDereference
    \/ HandleDotDereference
    \/ HandleFunctionCall
    \/ Finalize

SpecExpr == ExprInit /\ [][ExprNext]_vars

--------------------------------------------------------------------------
(* Function declarators and prototypes *)

\* requireNotRemoved(loc, profileMask, removedVersion, featureDesc): the errors it reports
requireNotRemoved(loc, profileMask, removedVersion, featureDesc) ==
    IF profile \in profileMask /\ version >= removedVersion
    THEN <<error(loc, "no longer supported in", featureDesc)>>
    ELSE <<>>

\* a function as the grammar hands it over: [name, type, params, paramNames],
\* a parameter without a name having the name ""
AsSymbol(function) == TFunction(function.name, function.type, "EOpNull", function.params)

\* handleFunctionDeclarator(loc, function): [errs, tab]
handleFunctionDeclarator(loc, function, tab) ==
    LET mangled == MangledName(function.name, function.params)
        symbol == find(tab, mangled)
        builtIn == findBuiltIn(tab, mangled)
        isPrev == symbol.kind = "Function"
        ins == insert(tab, AsSymbol(function))
        differing == SelectSeq([i \in 1..Len(symbol.params) |-> i],
                               LAMBDA i : symbol.params[i].storage # function.params[i].storage)
    IN  [errs |-> (IF ~atGlobalLevel(tab)
                   THEN requireProfile(loc, Profiles \ {"EEsProfile"}, "local function declaration")
                   ELSE <<>>)
                  \o (IF isPrev /\ builtIn
                      THEN requireNotRemoved(loc, {"EEsProfile"}, 300,
                                             "redeclaration of built-in function")
                      ELSE <<>>)
                  \o (IF isPrev /\ Shape(symbol.type) # Shape(function.type)
                      THEN <<error(loc, "overloaded functions must have the same return type",
                                   function.name)>>
                      ELSE <<>>)
                  \o (IF isPrev
                      THEN [k \in 1..Len(differing) |->
                              error(loc, "overloaded functions must have the same parameter qualifiers",
                                    function.name)]
                      ELSE <<>>)
                  \o (IF ~ins.ok THEN <<error(loc, "illegal redeclaration", function.name)>>
                      ELSE <<>>),
         tab |-> ins.tab]

\* the test for the entry point
IsMain(function) == function.name = "main"

RECURSIVE InsertParams(_, _, _, _)
\* the parameters from i on, inserted into the function's scope: [errs, tab]
InsertParams(loc, function, i, tab) ==
    IF i > Len(function.params) THEN [errs |-> <<>>, tab |-> tab]
    ELSE LET ins == insert(tab, TVariable(function.paramNames[i], function.params[i]))
             named == function.paramNames[i] # ""
             rest == InsertParams(loc, function, i + 1, IF named THEN ins.tab ELSE tab)
         IN  [errs |-> (IF named /\ ~ins.ok
                        THEN <<error(loc, "redefinition", function.paramNames[i])>> ELSE <<>>)
                       \o rest.errs,
              tab |-> rest.tab]

HasBodyNever(symbol) == FALSE

\* the test for a function that already has a body
HasBody(symbol) == symbol.kind = "Function" /\ symbol.defined

\* handleFunctionPrototype(loc, function): [errs, tab, mains, currentCaller]
handleFunctionPrototype(loc, function, tab) ==
    LET mangled == MangledName(function.name, function.params)
        symbol == find(tab, mangled)
        isPrev == symbol.kind = "Function"
        marked == IF isPrev
                  THEN replaceAt(tab, FindLevel(tab, mangled), [symbol EXCEPT !.defined = TRUE])
                  ELSE tab
        params == InsertParams(loc, function, 1, push(marked))
    IN  [errs |-> (IF ~isPrev THEN <<error(loc, "can't find function name", function.name)>>
                   ELSE <<>>)
                  \o (IF HasBody(symbol)
                      THEN <<error(loc, "function already has a body", function.name)>>
                      ELSE <<>>)
                  \o (IF IsMain(function) /\ Len(function.params) > 0
                      THEN <<error(loc, "function cannot take any parameter(s)", function.name)>>
                      ELSE <<>>)
                  \o (IF IsMain(function) /\ function.type.basic # "EbtVoid"
                      THEN <<error(loc, "", "main function cannot return a value")>>
                      ELSE <<>>)
                  \o params.errs,
         tab |-> params.tab,
         mains |-> IF IsMain(function) THEN 1 ELSE 0,
         currentCaller |-> mangled]

--------------------------------------------------------------------------
(* Variable declarations and initializers *)

atBuiltInLevel(tab) == Len(tab.levels) <= BuiltInLevel

\* the identifiers that start with "gl_", and those with two underscores in a row
GlNames == {"gl_TexCoord", "gl_Color", "gl_FragDepth", "gl_Foo"}

DoubleUnderscoreNames == {"a__b"}

\* reservedErrorCheck(loc, identifier): the errors it reports
reservedErrorCheck(loc, identifier, tab) ==
    IF atBuiltInLevel(tab) THEN <<>>
    ELSE IF identifier \in GlNames THEN <<error(loc, "reserved built-in name", "gl_")>>
    ELSE IF identifier \in DoubleUnderscoreNames
    THEN <<error(loc, "Two consecutive underscores are reserved for future use.", identifier)>>
    ELSE <<>>

\* the built-in variables a shader may redeclare
Redeclarable(identifier) ==
    \/ identifier = "gl_FragDepth" /\ version >= 420
    \/ identifier = "gl_Color" /\ version >= 130 /\ language = "EShLangFragment"
    \/ identifier = "gl_TexCoord"

\* redeclareBuiltin(loc, identifier, newDeclaration): [symbol, newDeclaration, tab]
redeclareBuiltin(loc, identifier, tab) ==
    LET symbol == find(tab, identifier)
        none == [symbol |-> NoSymbol, newDeclaration |-> FALSE, tab |-> tab]
    IN  IF profile = "EEsProfile" \/ identifier \notin GlNames \/ atBuiltInLevel(tab) THEN none
        ELSE IF ~Redeclarable(identifier) THEN none
        ELSE IF symbol.kind = "None" THEN none
        ELSE IF findBuiltIn(tab, identifier)
        THEN [symbol |-> [symbol EXCEPT !.readOnly = FALSE], newDeclaration |-> TRUE,
              tab |-> copyUp(tab, symbol)]
        ELSE [symbol |-> symbol, newDeclaration |-> FALSE, tab |-> tab]

\* declareNonArray(loc, identifier, type, newDeclaration): [variable, errs, tab]
declareNonArray(loc, identifier, type, tab) ==
    LET ins == insert(tab, TVariable(identifier, type))
    IN  IF ~ins.ok
        THEN [variable |-> NoSymbol, errs |-> <<error(loc, "redefinition", identifier)>>, tab |-> tab]
        ELSE [variable |-> ins.symbol, errs |-> <<>>, tab |-> ins.tab]

\* declareArray(loc, identifier, type, symbol, newDeclaration), symbol being
\* what redeclareBuiltin returned: [symbol, newDeclaration, errs, tab]
declareArray(loc, identifier, type, symbol, newDeclaration, tab) ==
    LET found == IF symbol.kind = "None" THEN find(tab, identifier) ELSE symbol
        currentScope == FindLevel(tab, identifier) = Len(tab.levels)
        ins == insert(tab, TVariable(identifier, type))
        newType == found.type
        sameElementType ==
            /\ newType.basic = type.basic /\ newType.vectorSize = type.vectorSize
            /\ newType.matrixCols = type.matrixCols /\ newType.matrixRows = type.matrixRows
            /\ newType.struct = type.struct
        failed(szReason) ==
            [symbol |-> found, newDeclaration |-> newDeclaration,
             errs |-> <<error(loc, szReason, identifier)>>, tab |-> tab]
    IN  IF symbol.kind = "None" /\ (found.kind = "None" \/ ~currentScope)
        THEN [symbol |-> ins.symbol, newDeclaration |-> TRUE, errs |-> <<>>, tab |-> ins.tab]
        ELSE IF symbol.kind = "None" /\ found.kind = "AnonMember"
        THEN failed("cannot redeclare a user-block member array")
        ELSE IF ~isArray(newType) THEN failed("redeclaring non-array as array")
        ELSE IF newType.arraySize > 0 THEN failed("redeclaration of array with size")
        ELSE IF ~sameElementType THEN failed("redeclaration of array with a different newType")
        ELSE [symbol |-> [found EXCEPT !.type.arraySize = type.arraySize],
              newDeclaration |-> newDeclaration, errs |-> <<>>,
              tab |-> replaceAt(tab, FindLevel(tab, identifier),
                                [found EXCEPT !.type.arraySize = type.arraySize])]

\* addAssign(EOpAssign, left, right): none when the right side does not convert
addAssign(left, right) ==
    LET conv == addConversion(left.type, right)
    IN  IF conv.kind = "Null" \/ Shape(conv.type) # Shape(left.type) THEN NullNode
        ELSE [NullNode EXCEPT !.kind = "Binary", !.op = "EOpAssign", !.type = left.type,
                              !.children = <<left, conv>>]

IsInitList(n) == n.kind = "Aggregate" /\ n.op = "EOpNull"

\* convertInitializerList(loc, type, initializer): [node, errs]
RECURSIVE convertInitializerList(_, _, _, _)
RECURSIVE ConvertMembers(_, _, _, _, _)
\* the members from i on, each converted to the type memberType(i) gives:
\* [nodes, errs, ok]
ConvertMembers(loc, memberTypes, members, i, uninit) ==
    LET joined(here, rest) ==
            [nodes |-> <<here.node>> \o rest.nodes, errs |-> here.errs \o rest.errs,
             ok |-> rest.ok]
        converted(here) ==
            IF here.node.kind = "Null" THEN [nodes |-> <<>>, errs |-> here.errs, ok |-> FALSE]
            ELSE joined(here, ConvertMembers(loc, memberTypes, members, i + 1, uninit))
    IN  IF i > Len(members) THEN [nodes |-> <<>>, errs |-> <<>>, ok |-> TRUE]
        ELSE converted(convertInitializerList(loc, memberTypes[i], members[i], uninit))

convertInitializerList(loc, type, initializer, uninit) ==
    LET count == Len(initializer.children)
        arrayType == [type EXCEPT !.arraySize = count]
        memberTypes == IF isArray(type) THEN [i \in 1..count |-> dereference(arrayType)]
                       ELSE IF isStruct(type) THEN [i \in 1..count |-> type.struct[i].type]
                       ELSE [i \in 1..count |-> dereference(type)]
        target == IF isArray(type) THEN arrayType ELSE type
        constructed(members, built) == [node |-> built.node, errs |-> members.errs \o built.errs]
        membersDone(members) ==
            IF ~members.ok THEN [node |-> NullNode, errs |-> members.errs]
            ELSE constructed(members,
                             addConstructor(loc, [initializer EXCEPT !.children = members.nodes],
                                            target, mapTypeToConstructorOp(target, uninit)))
        fail(reason) == [node |-> NullNode, errs |-> <<error(loc, reason, "initializer list")>>]
    IN  IF ~IsInitList(initializer) THEN [node |-> initializer, errs |-> <<>>]
        ELSE IF ~isArray(type) /\ isStruct(type) /\ Len(type.struct) # count
        THEN fail("wrong number of structure members")
        ELSE IF ~isArray(type) /\ ~isStruct(type) /\ isMatrix(type) /\ type.matrixCols # count
        THEN fail("wrong number of matrix columns:")
        ELSE IF ~isArray(type) /\ ~isStruct(type) /\ ~isMatrix(type) /\ isVector(type)
        THEN IF type.vectorSize # count
             THEN fail("wrong vector size (or rows in a matrix column):")
             ELSE addConstructor(loc, initializer, type, mapTypeToConstructorOp(type, uninit))
        ELSE IF ~isArray(type) /\ ~isStruct(type) /\ ~isMatrix(type)
        THEN fail("unexpected initializer-list type:")
        ELSE membersDone(ConvertMembers(loc, memberTypes, initializer.children, 1, uninit))

TagsConstantAlways(qualifier) == TRUE

TagsConstantNever(qualifier) == FALSE

\* the test for tagging the variable with its constant value, no code being made
TagsConstant(qualifier) == qualifier = "EvqConst" \/ qualifier = "EvqUniform"

\* executeInitializer(loc, identifier, initializer, variable): [initNode, errs, tab]
executeInitializer(loc, identifier, initializer0, variable, tab, uninit) ==
    LET qualifier0 == variable.type.storage
        level == FindLevel(tab, variable.name)
        stored(v) == replaceAt(tab, level, v)
        retyped(storage) == stored([variable EXCEPT !.type.storage = storage])
        converted(conv) ==
            LET initializer == conv.node
                resized == IF /\ isArray(initializer.type) /\ initializer.type.arraySize > 0
                              /\ isArray(variable.type) /\ variable.type.arraySize = 0
                           THEN [variable EXCEPT !.type.arraySize = initializer.type.arraySize]
                           ELSE variable
                nonConstInit == qualifier0 = "EvqConst" /\ initializer.type.storage # "EvqConst"
                qualifier == IF nonConstInit THEN "EvqConstReadOnly" ELSE qualifier0
                current == IF nonConstInit THEN [resized EXCEPT !.type.storage = "EvqConstReadOnly"]
                           ELSE resized
                featureErrs == IF nonConstInit
                               THEN requireProfile(loc, Desktop, "non-constant initializer")
                                    \o profileRequires(loc, Desktop, 420, "non-constant initializer")
                               ELSE <<>>
                tagged(folded) ==
                    IF \/ folded.kind # "ConstantUnion"
                       \/ Shape(current.type) # Shape(folded.type)
                    THEN [initNode |-> NullNode,
                          errs |-> conv.errs \o featureErrs
                                   \o <<error(loc, "non-matching or non-convertible constant type for const initializer",
                                              current.type.storage)>>,
                          tab |-> stored([current EXCEPT !.type.storage = "EvqTemporary"])]
                    ELSE [initNode |-> NullNode, errs |-> conv.errs \o featureErrs,
                          tab |-> stored([current EXCEPT !.constArray = folded.constArray])]
                assigned(assign) ==
                    [initNode |-> assign,
                     errs |-> conv.errs \o featureErrs
                              \o (IF assign.kind = "Null" THEN <<error(loc, "", "=")>> ELSE <<>>),
                     tab |-> stored(current)]
            IN  IF initializer.kind = "Null"
                THEN [initNode |-> NullNode, errs |-> conv.errs,
                      tab |-> IF qualifier0 = "EvqConst" THEN retyped("EvqTemporary") ELSE tab]
                ELSE IF qualifier0 = "EvqUniform" /\ initializer.type.storage # "EvqConst"
                THEN [initNode |-> NullNode,
                      errs |-> conv.errs \o <<error(loc, "uniform initializers must be constant", "=")>>,
                      tab |-> stored([resized EXCEPT !.type.storage = "EvqTemporary"])]
                ELSE IF qualifier0 = "EvqConst" /\ atGlobalLevel(tab) /\ initializer.type.storage # "EvqConst"
                THEN [initNode |-> NullNode,
                      errs |-> conv.errs \o <<error(loc, "global const initializers must be constant", "=")>>,
                      tab |-> stored([resized EXCEPT !.type.storage = "EvqTemporary"])]
                ELSE IF TagsConstant(qualifier)
                THEN tagged(addConversion(current.type, initializer))
                ELSE assigned(addAssign(addSymbol(current.uniqueId, current.name, current.type),
                                        initializer))
    IN  IF ~(qualifier0 \in {"EvqTemporary", "EvqGlobal", "EvqConst"}
             \/ (qualifier0 = "EvqUniform" /\ profile # "EEsProfile" /\ version >= 120))
        THEN [initNode |-> NullNode,
              errs |-> <<error(loc, " cannot initialize this type of qualifier ", qualifier0)>>,
              tab |-> tab]
        ELSE converted(convertInitializerList(loc, variable.type, initializer0, uninit))

\* the type left as it was declared
nonInitConstCheckKeeps(type) == type

\* nonInitConstCheck(loc, identifier, type): the type it leaves
nonInitConstCheck(type) ==
    IF type.storage \in {"EvqConst", "EvqConstReadOnly"}
    THEN [type EXCEPT !.storage = "EvqTemporary"] ELSE type

\* every new declaration taken for a linker-level object, whatever its scope
LinkedAnywhere(symbol, newDeclaration, tab) ==
    symbol.kind # "None" /\ newDeclaration

\* the declaration found to be a linker-level object to track
Linked(symbol, newDeclaration, tab) ==
    symbol.kind # "None" /\ newDeclaration /\ atGlobalLevel(tab)

\* declareVariable(loc, identifier, publicType, arraySizes, initializer), the
\* declaration being one of a type that is no array itself and without
\* layout qualifiers: [initNode, errs, tab, linkage]; no initializer is the
\* null node, no array sizes the empty sequence, <<0>> an unsized array
declareVariable(loc, identifier, publicType, arraySizes, initializer, tab, uninit) ==
    LET hasInit == initializer.kind # "Null"
        unInitConst == ~hasInit /\ publicType.storage \in {"EvqConst", "EvqConstReadOnly"}
        type == IF ~hasInit THEN nonInitConstCheck(publicType) ELSE publicType
        constErrs == IF unInitConst
                     THEN <<error(loc, "variables with qualifier 'const' must be initialized", identifier)>>
                     ELSE <<>>
        initialized(ei, before, linked) ==
            [initNode |-> ei.initNode, errs |-> before \o ei.errs, tab |-> ei.tab,
             linkage |-> linked]
        declared(symbol, newDeclaration, declErrs, declTab) ==
            LET before == constErrs \o declErrs
                linked == IF Linked(symbol, newDeclaration, declTab)
                          THEN <<identifier>> ELSE <<>>
            IN  IF symbol.kind # "None" /\ hasInit
                THEN IF symbol.kind # "Variable"
                     THEN [initNode |-> NullNode,
                           errs |-> before \o <<error(loc, "initializer requires a variable, not a member",
                                                      identifier)>>,
                           tab |-> declTab, linkage |-> <<>>]
                     ELSE initialized(executeInitializer(loc, identifier, initializer, symbol,
                                                         declTab, uninit),
                                      before, linked)
                ELSE [initNode |-> NullNode, errs |-> before, tab |-> declTab, linkage |-> linked]
        nonArray(dn) ==
            declared(dn.variable, dn.variable.kind # "None",
                     reservedErrorCheck(loc, identifier, tab) \o dn.errs, dn.tab)
        arrayErrs ==
            (IF profile = "EEsProfile" /\ ~hasInit /\ arraySizes = <<0>>
             THEN <<error(loc, "array size required", "")>> ELSE <<>>)
            \o (IF type.storage = "EvqConst"
                THEN profileRequires(loc, {"ENoProfile"}, 120, "const array")
                     \o profileRequires(loc, {"EEsProfile"}, 300, "const array")
                ELSE <<>>)
        initErrs ==
            IF hasInit
            THEN profileRequires(loc, {"ENoProfile"}, 120, "initializer")
                 \o profileRequires(loc, {"EEsProfile"}, 300, "initializer")
            ELSE <<>>
        array(reserved, da) ==
            declared(da.symbol, da.newDeclaration, reserved \o arrayErrs \o da.errs \o initErrs,
                     da.tab)
        redeclared(re) ==
            IF arraySizes # <<>>
            THEN array(IF re.symbol.kind = "None" THEN reservedErrorCheck(loc, identifier, tab)
                       ELSE <<>>,
                       declareArray(loc, identifier, ArrayOf(type, arraySizes[1]), re.symbol,
                                    re.newDeclaration, re.tab))
            ELSE IF re.symbol.kind # "None"
            THEN declared(re.symbol, re.newDeclaration, <<>>, re.tab)
            ELSE nonArray(declareNonArray(loc, identifier, type, re.tab))
    IN  IF type.basic = "EbtVoid"
        THEN [initNode |-> NullNode, errs |-> <<error(loc, "illegal use of type 'void'", identifier)>>,
              tab |-> tab, linkage |-> <<>>]
        ELSE redeclared(redeclareBuiltin(loc, identifier, tab))

--------------------------------------------------------------------------
(* A function definition with two initialized declarations in its body:   *)
(*     T main(...) { vec3 v = vec3(a, b, c); float f = <postfix expr>; }  *)

\* the function headers tried, each with the text it stands for
DeclFunctions ==
    { [text |-> "void main()", name |-> "main", type |-> VoidType,
       params |-> <<>>, paramNames |-> <<>>],
      [text |-> "float main()", name |-> "main", type |-> FloatType,
       params |-> <<>>, paramNames |-> <<>>],
      [text |-> "void helper(float x)", name |-> "helper", type |-> VoidType,
       params |-> <<[FloatType EXCEPT !.storage = "EvqIn"]>>, paramNames |-> <<"x">>] }

\* the constructor arguments tried for v's initializer
CtorValues ==
    { [text |-> "vec3(1.0,2.0,3.0)", values |-> <<1, 2, 3>>],
      [text |-> "vec3(4.0,4.0,4.0)", values |-> <<4, 4, 4>>] }

DeclStorages ==
    { [text |-> "", storage |-> "EvqTemporary"], [text |-> "const ", storage |-> "EvqConst"] }

DeclFields ==
    { [text |-> ".zxy", field |-> <<"z", "x", "y">>],
      [text |-> ".x", field |-> <<"x">>],
      [text |-> ".xk", field |-> <<"x", "k">>] }

\* v is declared when f's initializer is read; u never is
DeclRefs == {"v", "u"}

\* the call vec3(a, b, c) as the grammar builds it
Vec3Call(values) ==
    [fnCall |-> [name |-> "", mangledName |-> "", builtInOp |-> "EOpConstructVec3",
                 type |-> Vec3Type, params |-> [i \in 1..3 |-> Const(FloatType)]],
     intermNode |-> growAggregate([i \in 1..3 |-> addConstantUnion(<<values[i]>>, Const(FloatType))])]

declFrame == <<driverVars, fieldVars, configVars, call, ctorVars, loopVars, helperVars>>

HandleFunctionDeclarator ==
    /\ pc = "function_header"
    /\ \E function \in DeclFunctions :
         \E r \in {handleFunctionDeclarator(currentLoc, function, symbolTable)} :
             /\ symbolTable' = r.tab
             /\ Report(r.errs)
             /\ script' = <<function.text>>
    /\ pc' = "function_declared"
    /\ UNCHANGED <<node, steps, mainCount, currentCaller, linkage, initNode, declFrame>>

HandleFunctionPrototype ==
    /\ pc = "function_declared"
    /\ \E function \in {f \in DeclFunctions : f.text = script[1]} :
         \E r \in {handleFunctionPrototype(currentLoc, function, symbolTable)} :
           /\ symbolTable' = r.tab
           /\ Report(r.errs)
           /\ mainCount' = mainCount + r.mains
           /\ currentCaller' = r.currentCaller
    /\ pc' = "v_initializer"
    /\ UNCHANGED <<node, steps, linkage, initNode, script, declFrame>>

ConstructInitializer ==
    /\ pc = "v_initializer"
    /\ \E c \in CtorValues :
         \E r \in {handleFunctionCall(currentLoc, Vec3Call(c.values).fnCall,
                                     Vec3Call(c.values).intermNode, symbolTable)} :
             /\ node' = r.result
             /\ Report(r.errs)
             /\ script' = Append(script, c.text)
    /\ pc' = "v_declaration"
    /\ UNCHANGED <<symbolTable, steps, mainCount, currentCaller, linkage, initNode, declFrame>>

DeclareVariable ==
    /\ pc \in {"v_declaration", "f_initializer"}
    /\ \E q \in DeclStorages, uninit \in UninitOps :
         \E identifier \in {IF pc = "v_declaration" THEN "v" ELSE "f"},
            publicType \in {IF pc = "v_declaration" THEN Vec3Type ELSE FloatType} :
         \E r \in {declareVariable(currentLoc, identifier, [publicType EXCEPT !.storage = q.storage], <<>>,
                                    node, symbolTable, uninit)} :
             /\ symbolTable' = r.tab
             /\ initNode' = r.initNode
             /\ linkage' = linkage \o r.linkage
             /\ Report(r.errs)
             /\ script' = Append(script, q.text \o identifier \o "=")
    /\ node' = NullNode
    /\ steps' = 0
    /\ pc' = IF pc = "v_declaration" THEN "f_reference" ELSE "function_body_done"
    /\ UNCHANGED <<mainCount, currentCaller, declFrame>>

ReferVariable ==
    /\ pc = "f_reference"
    /\ \E string \in DeclRefs :
         \E r \in {handleVariable(currentLoc, find(symbolTable, string), string, symbolTable)} :
             /\ node' = r.result
             /\ Report(r.errs)
             /\ script' = Append(script, string)
    /\ pc' = "f_initializer"
    /\ UNCHANGED <<symbolTable, steps, mainCount, currentCaller, linkage, initNode, declFrame>>

SelectField ==
    /\ pc = "f_initializer"
    /\ node.kind # "Null"
    /\ steps < MaxDerefs
    /\ \E d \in DeclFields, ub \in UbValues, uninit \in UninitOps :
         \E r \in {handleDotDereference(currentLoc, node, d.field, symbolTable, ub, uninit)} :
             /\ node' = r.result
             /\ symbolTable' = r.tab
             /\ Report(r.errs)
             /\ script' = Append(script, d.text)
    /\ steps' = steps + 1
    /\ UNCHANGED <<pc, mainCount, currentCaller, linkage, initNode, declFrame>>

DeclTable == [levels |-> <<BuiltInSymbols, {}>>, uniqueId |-> 3]

DeclInit ==
    /\ pc = "function_header"
    /\ ContextInit
    /\ DriverIdle
    /\ FieldsIdle
    /\ limits = NoLimits
    /\ \E c \in Configs : version = c.version /\ profile = c.profile /\ language = c.language
    /\ symbolTable = DeclTable
    /\ node = NullNode
    /\ call = NoCall
    /\ steps = 0
    /\ DeclIdle
    /\ CtorIdle
    /\ LoopIdle
    /\ HelperIdle

DeclNext ==
    \/ HandleFunctionDeclarator
    \/ HandleFunctionPrototype
    \/ ConstructInitializer
    \/ DeclareVariable
    \/ ReferVariable
    \/ SelectField

SpecDecl == DeclInit /\ [][DeclNext]_vars

--------------------------------------------------------------------------
(* constructorError, run on one constructor call *)

\* how many arguments a constructor call is tried with
MaxArgs == 3

Vec2Type == TType("EbtFloat", "EvqTemporary", 2, 0, 0)

\* the types constructed
CtorTargets ==
    { FloatType, Vec2Type, TType("EbtFloat", "EvqTemporary", 4, 0, 0), Mat2Type,
      TType("EbtInt", "EvqTemporary", 2, 0, 0), ArrayOf(FloatType, 2),
      ArrayOf(FloatType, 0), StructOf("EvqTemporary", SampleStruct) }

\* the types of the arguments
CtorArgTypes ==
    { FloatType, Const(FloatType), Vec2Type, Mat2Type, ArrayOf(FloatType, 2),
      TType("EbtSampler", "EvqUniform", 1, 0, 0) }

\* the node the grammar hands over for arguments of these types: none, the
\* argument itself, or the aggregate of the arguments
ArgumentNode(params) ==
    IF params = <<>> THEN NullNode
    ELSE IF Len(params) = 1 THEN addSymbol(1, "arg", params[1])
    ELSE growAggregate([i \in 1..Len(params) |-> addSymbol(i, "arg", params[i])])

\* a call without arguments dereferences the null argument node unless an
\* earlier test returns; that happens for an unsized array only
NullArgumentRead(type, params) == params = <<>> /\ isArray(type) /\ type.arraySize = 0

ConstructorError ==
    /\ pc = "constructor_call"
    /\ \E type \in CtorTargets, params \in SeqsUpTo(CtorArgTypes, MaxArgs), uninit \in UninitOps :
         /\ ~NullArgumentRead(type, params)
         /\ \E op \in {mapTypeToConstructorOp(type, uninit)} :
            \E r \in {constructorError(currentLoc, ArgumentNode(params),
                                       [type |-> type, params |-> params], op)} :
             /\ ctorCall' = [op |-> op, type |-> type, params |-> params]
             /\ ctorResult' = [err |-> r.err, type |-> r.type, errs |-> r.errs]
             /\ Report(r.errs)
    /\ pc' = "constructor_checked"
    /\ UNCHANGED <<driverVars, fieldVars, configVars, exprVars, declVars, loopVars, helperVars>>

CtorInit ==
    /\ pc = "constructor_call"
    /\ ContextInit
    /\ DriverIdle
    /\ FieldsIdle
    /\ limits = NoLimits
    /\ \E c \in Configs : version = c.version /\ profile = c.profile /\ language = c.language
    /\ ExprIdle
    /\ DeclIdle
    /\ CtorIdle
    /\ LoopIdle
    /\ HelperIdle

CtorNext == ConstructorError

SpecCtor == CtorInit /\ [][CtorNext]_vars

--------------------------------------------------------------------------
(* inductiveLoopCheck *)

\* how many loops one shader has checked
MaxLoops == 1

Binary(op, left, right) ==
    [NullNode EXCEPT !.kind = "Binary", !.op = op, !.type = left.type, !.children = <<left, right>>]

Unary(op, operand) ==
    [NullNode EXCEPT !.kind = "Unary", !.op = op, !.type = operand.type, !.children = <<operand>>]

Sequence(children) ==
    [NullNode EXCEPT !.kind = "Aggregate", !.op = "EOpSequence", !.children = children,
                     !.type = VoidType]

RelationalOps == {"EOpGreaterThan", "EOpGreaterThanEqual", "EOpLessThan", "EOpLessThanEqual",
                  "EOpEqual", "EOpNotEqual"}

\* ! init->getAsAggregate()->getSequence().size() == 1, which is (! size) == 1
InitSizeTest(n) == (IF Len(n.children) = 0 THEN 1 ELSE 0) = 1

TerminalOpAcceptedWithPrefix(op) ==
    op \in {"EOpPostDecrement", "EOpPostIncrement", "EOpAddAssign", "EOpSubAssign",
            "EOpPreIncrement", "EOpPreDecrement"}

\* the operators the terminal's switch accepts
TerminalOpAccepted(op) ==
    op \in {"EOpPostDecrement", "EOpPostIncrement", "EOpAddAssign", "EOpSubAssign"}

InitError ==
    error(currentLoc, "inductive-loop init-declaration requires the form \"type-specifier loop-index = constant-expression\"", "limitations")

\* inductiveLoopBodyCheck(body, loopIndex, symbolTable): the errors of the
\* traversal of the body, which is modelled by whether it modifies the index
inductiveLoopBodyCheck(body, loopIndex) ==
    IF body.modifiesIndex
    THEN <<error(currentLoc, "inductive loop index modified", "limitations")>>
    ELSE <<>>

\* inductiveLoopCheck(loc, init, loop): [errs, ids], ids being inductiveLoopIds
\* after the call; loop is [test, terminal, body]
inductiveLoopCheck(loc, init, loop, ids) ==
    LET badAggregate == init.kind = "Null" \/ init.kind # "Aggregate" \/ InitSizeTest(init)
        binaryInit == init.children[1]
        loopIndex == binaryInit.children[1].id
        test == loop.test
        badCond == \/ test.kind = "Null"
                   \/ test.kind # "Binary"
                   \/ test.op \notin RelationalOps
                   \/ test.children[1].kind # "Symbol"
                   \/ test.children[1].id # loopIndex
                   \/ test.children[2].kind # "ConstantUnion"
        terminal == loop.terminal
        badTerminal == \/ terminal.kind = "Null"
                       \/ terminal.kind \notin {"Unary", "Binary"}
                       \/ ~TerminalOpAccepted(terminal.op)
                       \/ /\ terminal.kind = "Binary"
                          /\ \/ terminal.children[1].kind # "Symbol"
                             \/ terminal.children[1].id # loopIndex
                             \/ terminal.children[2].kind # "ConstantUnion"
                       \/ /\ terminal.kind = "Unary"
                          /\ \/ terminal.children[1].kind # "Symbol"
                             \/ terminal.children[1].id # loopIndex
    IN  IF badAggregate THEN [errs |-> <<InitError>>, ids |-> ids]
        ELSE IF binaryInit.kind # "Binary" THEN [errs |-> <<InitError>>, ids |-> ids]
        ELSE IF ~isScalar(binaryInit.type) \/ binaryInit.type.basic \notin {"EbtInt", "EbtFloat"}
        THEN [errs |-> <<error(loc, "inductive loop requires a scalar 'int' or 'float' loop index",
                               "limitations")>>,
              ids |-> ids]
        ELSE IF \/ binaryInit.op # "EOpAssign"
                \/ binaryInit.children[1].kind # "Symbol"
                \/ binaryInit.children[2].kind # "ConstantUnion"
        THEN [errs |-> <<InitError>>, ids |-> ids]
        ELSE IF badCond
        THEN [errs |-> <<error(loc, "inductive-loop condition requires the form \"loop-index <comparison-op> constant-expression\"",
                               "limitations")>>,
              ids |-> ids \cup {loopIndex}]
        ELSE IF badTerminal
        THEN [errs |-> <<error(loc, "inductive-loop termination requires the form \"loop-index++, loop-index--, loop-index += constant-expression, or loop-index -= constant-expression\"",
                               "limitations")>>,
              ids |-> ids \cup {loopIndex}]
        ELSE [errs |-> inductiveLoopBodyCheck(loop.body, loopIndex), ids |-> ids \cup {loopIndex}]

\* the symbols the loops are written over: the indexes i and j, a bound n,
\* and a loop variable of a type no inductive loop has
LoopSymbols ==
    [i |-> addSymbol(1, "i", TType("EbtInt", "EvqTemporary", 1, 0, 0)),
     j |-> addSymbol(2, "j", TType("EbtInt", "EvqTemporary", 1, 0, 0)),
     x |-> addSymbol(3, "x", FloatType),
     n |-> addSymbol(4, "n", TType("EbtInt", "EvqTemporary", 1, 0, 0)),
     v |-> addSymbol(5, "v", Vec2Type),
     b |-> addSymbol(6, "b", TType("EbtBool", "EvqTemporary", 1, 0, 0))]

IntConst(k) == addConstantUnion(<<k>>, TType("EbtInt", "EvqConst", 1, 0, 0))

\* the init-declarations tried: none, a bare assignment, and declaration
\* aggregates of 0, 1 and 2 declarations
LoopInits ==
    { NullNode,
      Binary("EOpAssign", LoopSymbols.i, IntConst(0)),
      Sequence(<<>>),
      Sequence(<<Binary("EOpAssign", LoopSymbols.i, IntConst(0))>>),
      Sequence(<<Binary("EOpAssign", LoopSymbols.x, IntConst(0))>>),
      Sequence(<<Binary("EOpAssign", LoopSymbols.v, IntConst(0))>>),
      Sequence(<<Binary("EOpAssign", LoopSymbols.b, IntConst(0))>>),
      Sequence(<<Binary("EOpAssign", LoopSymbols.i, LoopSymbols.n)>>),
      Sequence(<<Binary("EOpAddAssign", LoopSymbols.i, IntConst(0))>>),
      Sequence(<<LoopSymbols.i>>),
      Sequence(<<Binary("EOpAssign", LoopSymbols.i, IntConst(0)),
                 Binary("EOpAssign", LoopSymbols.j, IntConst(0))>>) }

LoopTests ==
    { NullNode,
      LoopSymbols.b,
      Binary("EOpLessThan", LoopSymbols.i, IntConst(4)),
      Binary("EOpLessThan", LoopSymbols.j, IntConst(4)),
      Binary("EOpLessThan", LoopSymbols.i, LoopSymbols.n),
      Binary("EOpAdd", LoopSymbols.i, IntConst(4)) }

LoopTerminals ==
    { NullNode,
      LoopSymbols.i,
      Unary("EOpPostIncrement", LoopSymbols.i),
      Unary("EOpPreIncrement", LoopSymbols.i),
      Unary("EOpPostIncrement", LoopSymbols.j),
      Binary("EOpAddAssign", LoopSymbols.i, IntConst(1)),
      Binary("EOpSubAssign", LoopSymbols.i, LoopSymbols.n),
      Binary("EOpAssign", LoopSymbols.i, IntConst(1)) }

LoopBodies == { [modifiesIndex |-> FALSE], [modifiesIndex |-> TRUE] }

InductiveLoopCheck ==
    /\ pc = "loops"
    /\ loopsChecked < MaxLoops
    /\ \E init \in LoopInits, test \in LoopTests, terminal \in LoopTerminals, body \in LoopBodies :
         \E r \in {inductiveLoopCheck(currentLoc, init,
                                     [test |-> test, terminal |-> terminal, body |-> body],
                                     inductiveLoopIds)} :
             /\ lastLoop' = [init |-> init, test |-> test, terminal |-> terminal, body |-> body]
             /\ loopErrs' = r.errs
             /\ inductiveLoopIds' = r.ids
             /\ Report(r.errs)
    /\ loopsChecked' = loopsChecked + 1
    /\ UNCHANGED <<pc, driverVars, fieldVars, configVars, exprVars, declVars, ctorVars, helperVars>>

\* inductive loops are checked for ES 100 shaders
LoopInit ==
    /\ pc = "loops"
    /\ ContextInit
    /\ DriverIdle
    /\ FieldsIdle
    /\ limits = NoLimits
    /\ version = 100
    /\ profile = "EEsProfile"
    /\ language \in {"EShLangVertex", "EShLangFragment"}
    /\ ExprIdle
    /\ DeclIdle
    /\ CtorIdle
    /\ LoopIdle
    /\ HelperIdle

LoopNext == InductiveLoopCheck

SpecLoop == LoopInit /\ [][LoopNext]_vars

--------------------------------------------------------------------------
(* executeInitializer, run on declarations at the global level and inside  *)
(* a function body                                                         *)

\* how many initialized declarations one behaviour has
MaxInits == 2

\* the storage qualifiers the initialized variables are declared with
InitQualifiers == {"EvqConst", "EvqUniform", "EvqTemporary", "EvqGlobal", "EvqVaryingIn"}

\* the types the initialized variables are declared with
InitTypes == {FloatType, Vec3Type}

\* the initializer expressions: constants of the variable's type and of
\* another type, a variable, and a list in braces
Initializers ==
    { addConstantUnion(<<2>>, Const(FloatType)),
      addConstantUnion(<<1>>, Const(IntType)),
      addConstantUnion(<<1, 2, 3>>, Const(Vec3Type)),
      addSymbol(1, "x", FloatType),
      [NullNode EXCEPT !.kind = "Aggregate", !.op = "EOpNull",
                       !.children = [i \in 1..3 |-> addConstantUnion(<<i>>, Const(FloatType))]] }

\* the identifier of the k-th declaration
InitIdentifiers == <<"a", "b", "c">>

initFrame == <<driverVars, fieldVars, configVars, node, call, steps, declVars, ctorVars,
               loopVars, funcVars, parserVars, precVars, mergeVars, stmtVars>>

\* the declaration of one variable with an initializer: the variable is
\* entered into the symbol table, and executeInitializer runs on it
ExecuteInitializer ==
    /\ pc = "initializers"
    /\ Len(initCalls) < MaxInits
    /\ \E qualifier \in InitQualifiers, type \in InitTypes, initializer \in Initializers,
          uninit \in UninitOps :
         \E identifier \in {InitIdentifiers[Len(initCalls) + 1]} :
         \E declared \in {insert(symbolTable,
                                 TVariable(identifier, [type EXCEPT !.storage = qualifier]))} :
         \E r \in {executeInitializer(currentLoc, identifier, initializer, declared.symbol,
                                       declared.tab, uninit)} :
             /\ symbolTable' = r.tab
             /\ Report(r.errs)
             /\ initCalls' = Append(initCalls,
                                    [qualifier |-> qualifier, type |-> type,
                                     initializer |-> initializer,
                                     atGlobalLevel |-> atGlobalLevel(symbolTable),
                                     initNode |-> r.initNode, errs |-> r.errs,
                                     variable |-> find(r.tab, identifier)])
    /\ UNCHANGED <<pc, initFrame>>

\* the context at a declaration: at the global level, or inside a function body
InitInit ==
    /\ pc = "initializers"
    /\ ContextInit
    /\ DriverIdle
    /\ FieldsIdle
    /\ limits = NoLimits
    /\ \E c \in Configs : version = c.version /\ profile = c.profile /\ language = c.language
    /\ symbolTable \in {DeclTable, push(DeclTable)}
    /\ node = NullNode
    /\ call = NoCall
    /\ steps = 0
    /\ DeclIdle
    /\ CtorIdle
    /\ LoopIdle
    /\ HelperIdle

InitNext == ExecuteInitializer

SpecInit == InitInit /\ [][InitNext]_vars

--------------------------------------------------------------------------
(* Function headers: declarations, redeclarations and definitions, in the  *)
(* order the grammar hands them to the handlers                            *)

\* how many function headers one behaviour handles
MaxFuncCalls == 3

InFloat == [FloatType EXCEPT !.storage = "EvqIn"]

\* the function headers: f(float) with two return types and two parameter
\* qualifiers, its overload f(int), and main
FuncHeaders ==
    { [name |-> "f", type |-> VoidType, params |-> <<InFloat>>, paramNames |-> <<"x">>],
      [name |-> "f", type |-> FloatType, params |-> <<InFloat>>, paramNames |-> <<"x">>],
      [name |-> "f", type |-> VoidType,
       params |-> <<[FloatType EXCEPT !.storage = "EvqOut"]>>, paramNames |-> <<"x">>],
      [name |-> "f", type |-> VoidType,
       params |-> <<[IntType EXCEPT !.storage = "EvqIn"]>>, paramNames |-> <<"x">>],
      [name |-> "main", type |-> VoidType, params |-> <<>>, paramNames |-> <<>>] }

\* the function of that mangled name declared at the current scope, if any
DeclaredHere(tab, mangled) ==
    IF mangled \in NamesAt(tab, Len(tab.levels)) THEN find(tab, mangled) ELSE NoSymbol

funcFrame == <<driverVars, fieldVars, configVars, node, call, steps, declVars, ctorVars,
               loopVars, initVars, parserVars, precVars, mergeVars, stmtVars>>

\* a function header followed by ';': handleFunctionDeclarator alone
DeclareFunction ==
    /\ pc = "functions"
    /\ Len(funcCalls) < MaxFuncCalls
    /\ \E function \in FuncHeaders :
         \E r \in {handleFunctionDeclarator(currentLoc, function, symbolTable)} :
             /\ symbolTable' = r.tab
             /\ Report(r.errs)
             /\ funcCalls' =
                    Append(funcCalls,
                           [handler |-> "handleFunctionDeclarator", function |-> function,
                            mangled |-> MangledName(function.name, function.params),
                            previous |-> DeclaredHere(symbolTable,
                                                      MangledName(function.name, function.params)),
                            errs |-> r.errs,
                            symbol |-> find(r.tab, MangledName(function.name, function.params))])
    /\ UNCHANGED <<pc, funcFrame>>

\* a function header followed by a body, at the global level, its declarator
\* handled before: handleFunctionPrototype, which opens the body's scope
DefineFunction ==
    /\ pc = "functions"
    /\ Len(funcCalls) < MaxFuncCalls
    /\ atGlobalLevel(symbolTable)
    /\ \E function \in FuncHeaders :
         /\ find(symbolTable, MangledName(function.name, function.params)).kind = "Function"
         /\ \E r \in {handleFunctionPrototype(currentLoc, function, symbolTable)} :
             /\ symbolTable' = r.tab
             /\ Report(r.errs)
             /\ funcCalls' =
                    Append(funcCalls,
                           [handler |-> "handleFunctionPrototype", function |-> function,
                            mangled |-> MangledName(function.name, function.params),
                            previous |-> find(symbolTable,
                                              MangledName(function.name, function.params)),
                            errs |-> r.errs,
                            symbol |-> find(r.tab, MangledName(function.name, function.params))])
    /\ UNCHANGED <<pc, funcFrame>>

\* the end of a function's body: its scope is left
EndFunctionBody ==
    /\ pc = "functions"
    /\ ~atGlobalLevel(symbolTable)
    /\ symbolTable' = pop(symbolTable)
    /\ UNCHANGED <<pc, numErrors, errLog, funcFrame, funcVars>>

FuncInit ==
    /\ pc = "functions"
    /\ ContextInit
    /\ DriverIdle
    /\ FieldsIdle
    /\ limits = NoLimits
    /\ \E c \in Configs : version = c.version /\ profile = c.profile /\ language = c.language
    /\ symbolTable = DeclTable
    /\ node = NullNode
    /\ call = NoCall
    /\ steps = 0
    /\ DeclIdle
    /\ CtorIdle
    /\ LoopIdle
    /\ HelperIdle

FuncNext ==
    \/ DeclareFunction
    \/ DefineFunction
    \/ EndFunctionBody

SpecFunc == FuncInit /\ [][FuncNext]_vars

--------------------------------------------------------------------------
(* Default precisions: the constructor's tables, setDefaultPrecision and   *)
(* getDefaultPrecision                                                     *)

\* how many precision statements one behaviour handles
MaxPrecisionCalls == 1

\* the basic types and the sampler dimensions, in the order of their
\* enumerations, the first being 0
BasicTypeOrder ==
    <<"EbtVoid", "EbtBool", "EbtInt", "EbtUint", "EbtFloat", "EbtDouble", "EbtSampler",
      "EbtStruct", "EbtBlock", "EbtAtomicUint">>

SamplerDimOrder == <<"Esd1D", "Esd2D", "Esd3D", "EsdCube", "EsdRect", "EsdBuffer", "Esd2DMS">>

EbtNumTypes == 10

EsdNumDims == 7

Ordinal(order, x) == (CHOOSE i \in 1..Len(order) : order[i] = x) - 1

\* the size of defaultSamplerPrecision[]
maxSamplerIndex == 2 * 2 * EsdNumDims * EbtNumTypes

\* TSampler::set(type, dim): the other fields are cleared
SamplerSet(type, dim) ==
    [type |-> type, dim |-> dim, arrayed |-> FALSE, shadow |-> FALSE, ms |-> FALSE,
     image |-> FALSE]

\* the sampler types the precision statements name
Samplers ==
    { [type |-> t, dim |-> d, arrayed |-> a, shadow |-> sh, ms |-> m, image |-> im] :
        t \in {"EbtFloat", "EbtInt"}, d \in {"Esd2D", "EsdCube"},
        a \in BOOLEAN, sh \in BOOLEAN, m \in BOOLEAN, im \in BOOLEAN }

PrecisionQualifiers == {"EpqLow", "EpqMedium", "EpqHigh"}

\* computeSamplerTypeIndex(sampler)
computeSamplerTypeIndex(sampler) ==
    LET arrayIndex == IF sampler.arrayed THEN 1 ELSE 0
        shadowIndex == IF sampler.shadow THEN 1 ELSE 0
    IN  EsdNumDims * (EbtNumTypes * (2 * arrayIndex + shadowIndex)
                      + Ordinal(BasicTypeOrder, sampler.type))
        + Ordinal(SamplerDimOrder, sampler.dim)

\* the public types of the precision statements: the sampler types, and the
\* types float, int, uint, bool and vec3
PrecisionTypes ==
    { [basicType |-> "EbtSampler", vectorSize |-> 1, sampler |-> sm] : sm \in Samplers }
    \cup { [basicType |-> b, vectorSize |-> 1, sampler |-> SamplerSet("EbtVoid", "Esd1D")] :
             b \in {"EbtFloat", "EbtInt", "EbtUint", "EbtBool"} }
    \cup { [basicType |-> "EbtFloat", vectorSize |-> 3,
            sampler |-> SamplerSet("EbtVoid", "Esd1D")] }

\* setDefaultPrecision(loc, publicType, qualifier):
\* [defaultPrecision, defaultSamplerPrecision, errs]
setDefaultPrecision(loc, publicType, qualifier, prec, samplerPrec) ==
    LET basicType == publicType.basicType
    IN  IF basicType = "EbtSampler"
        THEN [defaultPrecision |-> prec,
              defaultSamplerPrecision |->
                  [samplerPrec EXCEPT ![computeSamplerTypeIndex(publicType.sampler)] = qualifier],
              errs |-> <<>>]
        ELSE IF basicType \in {"EbtInt", "EbtFloat"} /\ publicType.vectorSize = 1
        THEN [defaultPrecision |->
                  IF basicType = "EbtInt"
                  THEN [prec EXCEPT !["EbtInt"] = qualifier, !["EbtUint"] = qualifier]
                  ELSE [prec EXCEPT ![basicType] = qualifier],
              defaultSamplerPrecision |-> samplerPrec,
              errs |-> <<>>]
        ELSE [defaultPrecision |-> prec, defaultSamplerPrecision |-> samplerPrec,
              errs |-> <<error(loc, "cannot apply precision statement to this type; use 'float', 'int' or a sampler type",
                               basicType)>>]

\* getDefaultPrecision(publicType)
getDefaultPrecision(publicType, prec, samplerPrec) ==
    IF publicType.basicType = "EbtSampler"
    THEN samplerPrec[computeSamplerTypeIndex(publicType.sampler)]
    ELSE prec[publicType.basicType]

\* the tables as the constructor leaves them
ConstructedPrecision(p, l) ==
    LET none == [b \in Range(BasicTypeOrder) |-> "EpqNone"]
    IN  IF p # "EEsProfile" THEN none
        ELSE IF l = "EShLangVertex"
        THEN [none EXCEPT !["EbtInt"] = "EpqHigh", !["EbtUint"] = "EpqHigh",
                          !["EbtFloat"] = "EpqHigh", !["EbtSampler"] = "EpqLow"]
        ELSE IF l = "EShLangFragment"
        THEN [none EXCEPT !["EbtInt"] = "EpqMedium", !["EbtUint"] = "EpqMedium",
                          !["EbtSampler"] = "EpqLow"]
        ELSE none

ConstructedSamplerPrecision(p) ==
    LET none == [i \in 0..(maxSamplerIndex - 1) |-> "EpqNone"]
    IN  IF p # "EEsProfile" THEN none
        ELSE [none EXCEPT ![computeSamplerTypeIndex(SamplerSet("EbtFloat", "Esd2D"))] = "EpqLow",
                          ![computeSamplerTypeIndex(SamplerSet("EbtFloat", "EsdCube"))] = "EpqLow"]

precFrame == <<driverVars, fieldVars, configVars, exprVars, declVars, ctorVars, loopVars,
               initVars, funcVars, parserVars, mergeVars, stmtVars>>

\* one precision statement: precision <qualifier> <type>;
SetDefaultPrecision ==
    /\ pc = "precisions"
    /\ Len(precisionCalls) < MaxPrecisionCalls
    /\ \E publicType \in PrecisionTypes, qualifier \in PrecisionQualifiers :
         \E r \in {setDefaultPrecision(currentLoc, publicType, qualifier, defaultPrecision,
                                        defaultSamplerPrecision)} :
             /\ defaultPrecision' = r.defaultPrecision
             /\ defaultSamplerPrecision' = r.defaultSamplerPrecision
             /\ Report(r.errs)
             /\ precisionCalls' =
                    Append(precisionCalls,
                           [publicType |-> publicType, qualifier |-> qualifier,
                            before |-> [prec |-> defaultPrecision,
                                        samplerPrec |-> defaultSamplerPrecision],
                            errs |-> r.errs])
    /\ UNCHANGED <<pc, precFrame>>

PrecInit ==
    /\ pc = "precisions"
    /\ ContextInit
    /\ DriverIdle
    /\ FieldsIdle
    /\ limits = NoLimits
    /\ \E c \in Configs : version = c.version /\ profile = c.profile /\ language = c.language
    /\ ExprIdle
    /\ DeclIdle
    /\ CtorIdle
    /\ LoopIdle
    /\ InitIdle
    /\ FuncIdle
    /\ ParserIdle
    /\ MergeIdle
    /\ StmtIdle
    /\ defaultPrecision = ConstructedPrecision(profile, language)
    /\ defaultSamplerPrecision = ConstructedSamplerPrecision(profile)
    /\ precisionCalls = <<>>

PrecNext == SetDefaultPrecision

SpecPrec == PrecInit /\ [][PrecNext]_vars

--------------------------------------------------------------------------
(* mergeQualifiers, run on the qualifiers of one declaration               *)

\* how many qualifiers are merged in one behaviour
MaxMerges == 2

\* TQualifier::clear(): no storage, no precision, no layout, no flag
ClearQualifier ==
    [storage |-> "EvqTemporary", precision |-> "EpqNone",
     layoutMatrix |-> "ElmNone", layoutPacking |-> "ElpNone",
     layoutSlotLocation |-> 0, layoutBinding |-> 0,
     invariant |-> FALSE, centroid |-> FALSE, smooth |-> FALSE, flat |-> FALSE,
     nopersp |-> FALSE, patch |-> FALSE, sample |-> FALSE, shared |-> FALSE,
     coherent |-> FALSE, volatil |-> FALSE, restrict |-> FALSE, readonly |-> FALSE,
     writeonly |-> FALSE]

\* the fields MERGE_SINGLETON is applied to
Singletons ==
    {"invariant", "centroid", "smooth", "flat", "nopersp", "patch", "sample", "shared",
     "coherent", "volatil", "restrict", "readonly", "writeonly"}

isAuxiliary(q) == q.centroid \/ q.patch \/ q.sample

isInterpolation(q) == q.flat \/ q.smooth \/ q.nopersp

\* a location, a binding is set when it is not the value clear() leaves
hasLocation(q) == q.layoutSlotLocation # ClearQualifier.layoutSlotLocation

hasBinding(q) == q.layoutBinding # ClearQualifier.layoutBinding

\* mergeLayoutQualifiers(loc, dst, src): dst as it is left
mergeLayoutQualifiers(d, src) ==
    [d EXCEPT
       !.layoutMatrix = IF src.layoutMatrix # "ElmNone" THEN src.layoutMatrix ELSE @,
       !.layoutPacking = IF src.layoutPacking # "ElpNone" THEN src.layoutPacking ELSE @,
       !.layoutSlotLocation = IF hasLocation(src) THEN src.layoutSlotLocation ELSE @,
       !.layoutBinding = IF hasBinding(src) THEN src.layoutBinding ELSE @]

mergeStorageLoose(loc, dstStorage, srcStorage) ==
    IF dstStorage = "EvqTemporary" \/ dstStorage = "EvqGlobal"
    THEN [storage |-> srcStorage, errs |-> <<>>]
    ELSE IF dstStorage \in {"EvqIn", "EvqOut"} /\ srcStorage \in {"EvqIn", "EvqOut"}
    THEN [storage |-> "EvqInOut", errs |-> <<>>]
    ELSE IF \/ dstStorage = "EvqIn" /\ srcStorage = "EvqConst"
            \/ dstStorage = "EvqConst" /\ srcStorage = "EvqIn"
    THEN [storage |-> "EvqConstReadOnly", errs |-> <<>>]
    ELSE IF srcStorage # "EvqTemporary"
    THEN [storage |-> dstStorage,
          errs |-> <<error(loc, "too many storage qualifiers", srcStorage)>>]
    ELSE [storage |-> dstStorage, errs |-> <<>>]

\* the storage qualification of mergeQualifiers: [storage, errs]
mergeStorage(loc, dstStorage, srcStorage) ==
    IF dstStorage = "EvqTemporary" \/ dstStorage = "EvqGlobal"
    THEN [storage |-> srcStorage, errs |-> <<>>]
    ELSE IF \/ dstStorage = "EvqIn" /\ srcStorage = "EvqOut"
            \/ dstStorage = "EvqOut" /\ srcStorage = "EvqIn"
    THEN [storage |-> "EvqInOut", errs |-> <<>>]
    ELSE IF \/ dstStorage = "EvqIn" /\ srcStorage = "EvqConst"
            \/ dstStorage = "EvqConst" /\ srcStorage = "EvqIn"
    THEN [storage |-> "EvqConstReadOnly", errs |-> <<>>]
    ELSE IF srcStorage # "EvqTemporary"
    THEN [storage |-> dstStorage,
          errs |-> <<error(loc, "too many storage qualifiers", srcStorage)>>]
    ELSE [storage |-> dstStorage, errs |-> <<>>]

MergeSingletonToggle(dstField, srcField) == dstField # srcField

\* MERGE_SINGLETON(field): the value dst.field is left with
MergeSingleton(dstField, srcField) == dstField \/ srcField

\* the ordering checks, made when force is false and the version is below 420
OrderingErrs(loc, d, src) ==
    (IF src.invariant /\ (\/ isInterpolation(d) \/ isAuxiliary(d)
                          \/ d.storage # "EvqTemporary" \/ d.precision # "EpqNone")
     THEN <<error(loc, "invariant qualifier must appear first", "")>>
     ELSE IF src.invariant THEN <<>>
     ELSE IF isInterpolation(src) /\ (\/ isAuxiliary(d) \/ d.storage # "EvqTemporary"
                                      \/ d.precision # "EpqNone")
     THEN <<error(loc, "interpolation qualifiers must appear before storage and precision qualifiers", "")>>
     ELSE IF isInterpolation(src) THEN <<>>
     ELSE IF isAuxiliary(src) /\ (d.storage # "EvqTemporary" \/ d.precision # "EpqNone")
     THEN <<error(loc, "Auxiliary qualifiers (centroid, patch, and sample) must appear before storage and precision qualifiers", "")>>
     ELSE IF isAuxiliary(src) THEN <<>>
     ELSE IF src.storage # "EvqTemporary" /\ d.precision # "EpqNone"
     THEN <<error(loc, "precision qualifier must appear as last qualifier", "")>>
     ELSE <<>>)
    \o (IF src.storage = "EvqConst" /\ (d.storage = "EvqIn" \/ d.storage = "EvqOut")
        THEN <<error(loc, "in/out must appear before const", "")>>
        ELSE <<>>)

\* mergeQualifiers(loc, dst, src, force): [dst, errs]
mergeQualifiers(loc, d, src, force) ==
    LET merged(st) ==
            [f \in DOMAIN d |->
                IF f \in Singletons THEN MergeSingleton(d[f], src[f])
                ELSE IF f = "storage" THEN st.storage
                ELSE IF f = "precision"
                THEN IF d.precision = "EpqNone" \/ (force /\ src.precision # "EpqNone")
                     THEN src.precision ELSE d.precision
                ELSE mergeLayoutQualifiers(d, src)[f]]
        done(st) ==
            [dst |-> merged(st),
             errs |->
                (IF isAuxiliary(src) /\ isAuxiliary(d)
                 THEN <<error(loc, "can only have one auxiliary qualifier (centroid, patch, and sample)", "")>>
                 ELSE <<>>)
                \o (IF isInterpolation(src) /\ isInterpolation(d)
                    THEN <<error(loc, "can only have one interpolation qualifier (flat, smooth, noperspective)", "")>>
                    ELSE <<>>)
                \o (IF ~force /\ version < 420 THEN OrderingErrs(loc, d, src) ELSE <<>>)
                \o st.errs
                \o (IF ~force /\ src.precision # "EpqNone" /\ d.precision # "EpqNone"
                    THEN <<error(loc, "only one precision qualifier allowed", src.precision)>>
                    ELSE <<>>)
                \o (IF \E f \in Singletons : d[f] /\ src[f]
                    THEN <<error(loc, "replicated qualifiers", "")>>
                    ELSE <<>>)]
    IN  done(mergeStorage(loc, d.storage, src.storage))

\* the single qualifiers of a declaration, as the grammar hands them over: a
\* storage, a precision, one flag, or a layout
SingleQualifiers ==
    { [ClearQualifier EXCEPT !.storage = st] :
        st \in {"EvqGlobal", "EvqIn", "EvqOut", "EvqConst", "EvqUniform"} }
    \cup { [ClearQualifier EXCEPT !.precision = pr] : pr \in {"EpqMedium", "EpqHigh"} }
    \cup { [ClearQualifier EXCEPT ![f] = TRUE] :
             f \in {"invariant", "centroid", "patch", "sample", "smooth", "flat", "nopersp"} }
    \cup { [ClearQualifier EXCEPT !.layoutMatrix = "ElmRowMajor"],
           [ClearQualifier EXCEPT !.layoutSlotLocation = 3] }

mergeFrame == <<driverVars, fieldVars, configVars, exprVars, declVars, ctorVars, loopVars,
                initVars, funcVars, parserVars, precVars, stmtVars>>

\* one more qualifier, or a copy of the qualifier itself, merged into dst
MergeQualifiers ==
    /\ pc = "qualifiers"
    /\ Len(mergeCalls) < MaxMerges
    /\ \E src \in SingleQualifiers \cup {dst}, force \in BOOLEAN :
         \E r \in {mergeQualifiers(currentLoc, dst, src, force)} :
             /\ dst' = r.dst
             /\ Report(r.errs)
             /\ mergeCalls' = Append(mergeCalls,
                                     [dst |-> dst, src |-> src, force |-> force,
                                      merged |-> r.dst, errs |-> r.errs])
    /\ UNCHANGED <<pc, mergeFrame>>

MergeInit ==
    /\ pc = "qualifiers"
    /\ ContextInit
    /\ DriverIdle
    /\ FieldsIdle
    /\ limits = NoLimits
    /\ \E c \in Configs : version = c.version /\ profile = c.profile /\ language = c.language
    /\ ExprIdle
    /\ DeclIdle
    /\ CtorIdle
    /\ LoopIdle
    /\ InitIdle
    /\ FuncIdle
    /\ ParserIdle
    /\ PrecIdle
    /\ StmtIdle
    /\ dst = ClearQualifier
    /\ mergeCalls = <<>>

MergeNext == MergeQualifiers

SpecMerge == MergeInit /\ [][MergeNext]_vars

--------------------------------------------------------------------------
(* Switch assembly: wrapupSwitchSubsequence on the innermost switch        *)

\* how many calls of wrapupSwitchSubsequence one behaviour makes
MaxSwitchCalls == 3

\* addBranch(EOpCase, expression) and addBranch(EOpDefault): the expression
\* of default is the null node
addBranch(op, expression) ==
    [NullNode EXCEPT !.kind = "Branch", !.op = op, !.children = <<expression>>]

getExpression(branch) == branch.children[1]

\* the statements since the last label, and no statements
Statements ==
    { NullNode,
      [NullNode EXCEPT !.kind = "Aggregate", !.op = "EOpNull",
                       !.children = <<addSymbol(20, "s", FloatType)>>] }

\* the labels: default, case 1, case 2, case n for a variable n, and none
BranchNodes ==
    { NullNode, addBranch("EOpDefault", NullNode),
      addBranch("EOpCase", addConstantUnion(<<1>>, Const(IntType))),
      addBranch("EOpCase", addConstantUnion(<<2>>, Const(IntType))),
      addBranch("EOpCase", addSymbol(21, "n", IntType)) }

DuplicateLabelNever(prevExpression, newExpression) == ""

\* the test of a new label against one earlier label: the token of the error
\* it gives, "" for none
DuplicateLabel(prevExpression, newExpression) ==
    IF prevExpression.kind = "Null" /\ newExpression.kind = "Null" THEN "default"
    ELSE IF /\ prevExpression.kind # "Null"
            /\ newExpression.kind # "Null"
            /\ prevExpression.kind = "ConstantUnion"
            /\ newExpression.kind = "ConstantUnion"
            /\ prevExpression.constArray[1] = newExpression.constArray[1]
    THEN "case"
    ELSE ""

\* wrapupSwitchSubsequence(statements, branchNode): [stack, errs]
wrapupSwitchSubsequence(statements, branchNode, stack) ==
    LET switchSequence == stack[Len(stack)]
        stmtErrs == IF statements.kind # "Null" /\ Len(switchSequence) = 0
                    THEN <<error(currentLoc, "cannot have statements before first case/default label",
                                 "switch")>>
                    ELSE <<>>
        withStatements == IF statements.kind # "Null"
                          THEN Append(switchSequence, [statements EXCEPT !.op = "EOpSequence"])
                          ELSE switchSequence
        prevBranches == SelectSeq(withStatements, LAMBDA n : n.kind = "Branch")
        labelErrs(new) ==
            [k \in 1..Len(SelectSeq(prevBranches,
                                     LAMBDA b : DuplicateLabel(getExpression(b), new) # "")) |->
                LET b == SelectSeq(prevBranches,
                                   LAMBDA x : DuplicateLabel(getExpression(x), new) # "")[k]
                IN  IF DuplicateLabel(getExpression(b), new) = "default"
                    THEN error(currentLoc, "duplicate label", "default")
                    ELSE error(currentLoc, "duplicated value", "case")]
    IN  [stack |-> [stack EXCEPT ![Len(stack)] =
                       IF branchNode.kind # "Null" THEN Append(withStatements, branchNode)
                       ELSE withStatements],
         errs |-> stmtErrs
                  \o (IF branchNode.kind # "Null" THEN labelErrs(getExpression(branchNode))
                      ELSE <<>>)]

switchFrame == <<driverVars, fieldVars, configVars, exprVars, declVars, ctorVars, loopVars,
                 initVars, funcVars, parserVars, precVars, mergeVars,
                 operands, contextPragma, pragmaCalls>>

\* the grammar at a label or at the end of the switch body
WrapupSwitchSubsequence ==
    /\ pc = "switch_body"
    /\ switchCalls < MaxSwitchCalls
    /\ \E statements \in Statements, branchNode \in BranchNodes :
         \E r \in {wrapupSwitchSubsequence(statements, branchNode, switchSequenceStack)} :
             /\ switchSequenceStack' = r.stack
             /\ Report(r.errs)
    /\ switchCalls' = switchCalls + 1
    /\ UNCHANGED <<pc, switchFrame>>

\* inside the body of a switch, which is the outermost one, or lies after the
\* first label of another
SwitchInit ==
    /\ pc = "switch_body"
    /\ ContextInit
    /\ DriverIdle
    /\ FieldsIdle
    /\ limits = NoLimits
    /\ \E c \in Configs : version = c.version /\ profile = c.profile /\ language = c.language
    /\ ExprIdle
    /\ DeclIdle
    /\ CtorIdle
    /\ LoopIdle
    /\ InitIdle
    /\ FuncIdle
    /\ ParserIdle
    /\ PrecIdle
    /\ MergeIdle
    /\ UseIdle
    /\ PragmaIdle
    /\ switchSequenceStack
          \in { <<<<>>>>,
                <<<<addBranch("EOpCase", addConstantUnion(<<1>>, Const(IntType)))>>, <<>>>> }
    /\ switchCalls = 0

SwitchNext == WrapupSwitchSubsequence

SpecSwitch == SwitchInit /\ [][SwitchNext]_vars

--------------------------------------------------------------------------
(* Declarations and interface blocks, at global scope and in a function   *)
(* body, and the linkage they build                                       *)

MaxDeclarations == 3

\* insert(symbol) of a variable without a name, the instance of an
\* anonymous block: the table names the container and files each member
\* under its own name; it fails when a member's name exists at the current scope
insertAnonymous(tab, variable, memberNames) ==
    LET cur == Len(tab.levels)
        container == [variable EXCEPT !.name = "anon@1", !.uniqueId = tab.uniqueId + 1]
        members == { [NoSymbol EXCEPT !.kind = "AnonMember", !.name = memberNames[i],
                                      !.container = "anon@1", !.memberNumber = i - 1,
                                      !.uniqueId = tab.uniqueId + 1 + i] :
                     i \in 1..Len(memberNames) }
    IN  IF \E i \in 1..Len(memberNames) : memberNames[i] \in NamesAt(tab, cur)
        THEN [ok |-> FALSE, tab |-> tab, symbol |-> variable]
        ELSE [ok |-> TRUE,
              tab |-> [levels |-> [tab.levels EXCEPT ![cur] = @ \cup {container} \cup members],
                       uniqueId |-> tab.uniqueId + 1 + Len(memberNames)],
              symbol |-> container]

\* addBlock(loc, typeList, instanceName, arraySizes) for the block named
\* blockName with currentBlockDefaults.storage = storage, its members plain
\* floats and its instance no array: [errs, tab, linkage]; no instance name
\* is the empty string
addBlock(loc, blockName, storage, typeList, memberNames, instanceName, tab) ==
    LET storageErrs ==
            IF storage = "EvqBuffer"
            THEN requireProfile(loc, Desktop, "buffer block")
                 \o profileRequires(loc, Desktop, 430, "buffer block")
            ELSE IF storage = "EvqUniform"
            THEN profileRequires(loc, {"EEsProfile"}, 300, "uniform block")
                 \o profileRequires(loc, {"ENoProfile"}, 140, "uniform block")
            ELSE IF storage = "EvqVaryingIn" THEN requireProfile(loc, Desktop, "input block")
            ELSE IF storage = "EvqVaryingOut" THEN requireProfile(loc, Desktop, "output block")
            ELSE <<error(loc, "only uniform, buffer, in, or out blocks are supported", blockName)>>
        blockType == [TType("EbtBlock", storage, 1, 0, 0) EXCEPT !.struct = typeList]
        blockNameVar == insert(tab, TVariable(blockName, TType("EbtBlock", "EvqTemporary", 1, 0, 0)))
        existingName == find(tab, blockName)
        stop(errs, t) == [errs |-> errs, tab |-> t, linkage |-> <<>>]
        instance(ins) ==
            IF ~ins.ok
            THEN stop(storageErrs
                      \o <<IF instanceName = ""
                           THEN error(loc, "nameless block contains a member that already has a name at global scope",
                                      blockName)
                           ELSE error(loc, "block instance name redefinition", instanceName)>>,
                      blockNameVar.tab)
            ELSE [errs |-> storageErrs, tab |-> ins.tab, linkage |-> <<ins.symbol.name>>]
    IN  IF reservedErrorCheck(loc, blockName, tab) # <<>>
        THEN stop(reservedErrorCheck(loc, blockName, tab), tab)
        ELSE IF instanceName # "" /\ reservedErrorCheck(loc, instanceName, tab) # <<>>
        THEN stop(reservedErrorCheck(loc, instanceName, tab), tab)
        ELSE IF storage \notin {"EvqBuffer", "EvqUniform", "EvqVaryingIn", "EvqVaryingOut"}
        THEN stop(storageErrs, tab)
        ELSE IF ~blockNameVar.ok /\ existingName.type.basic # "EbtBlock"
        THEN stop(storageErrs \o <<error(loc, "block name cannot redefine a non-block name", blockName)>>,
                  tab)
        ELSE instance(IF instanceName = ""
                      THEN insertAnonymous(blockNameVar.tab, TVariable("", blockType), memberNames)
                      ELSE insert(blockNameVar.tab, TVariable(instanceName, blockType)))

\* the declarations tried, each with the text it stands for
LinkDeclarations ==
    { [text |-> "float a;", identifier |-> "a", type |-> FloatType, arraySizes |-> <<>>,
       initializer |-> NullNode],
      [text |-> "float a[];", identifier |-> "a", type |-> FloatType, arraySizes |-> <<0>>,
       initializer |-> NullNode],
      [text |-> "float a[2];", identifier |-> "a", type |-> FloatType, arraySizes |-> <<2>>,
       initializer |-> NullNode],
      [text |-> "float b = 1.0;", identifier |-> "b", type |-> FloatType, arraySizes |-> <<>>,
       initializer |-> addConstantUnion(<<1>>, Const(FloatType))],
      [text |-> "vec4 gl_TexCoord[2];", identifier |-> "gl_TexCoord",
       type |-> TType("EbtFloat", "EvqVaryingIn", 4, 0, 0), arraySizes |-> <<2>>,
       initializer |-> NullNode],
      [text |-> "float gl_TexCoord[2];", identifier |-> "gl_TexCoord",
       type |-> [FloatType EXCEPT !.storage = "EvqVaryingIn"], arraySizes |-> <<2>>,
       initializer |-> NullNode] }

\* the interface blocks tried
LinkBlocks ==
    { [text |-> "uniform U { float m; } u;", blockName |-> "U", storage |-> "EvqUniform",
       memberNames |-> <<"m">>, instanceName |-> "u"],
      [text |-> "uniform U { float a; };", blockName |-> "U", storage |-> "EvqUniform",
       memberNames |-> <<"a">>, instanceName |-> ""],
      [text |-> "uniform a { float m; } w;", blockName |-> "a", storage |-> "EvqUniform",
       memberNames |-> <<"m">>, instanceName |-> "w"] }

BlockTypeList(memberNames) ==
    [i \in 1..Len(memberNames) |-> [fieldName |-> <<memberNames[i]>>, type |-> FloatType]]

linkFrame == <<driverVars, fieldVars, configVars, node, call, mainCount, currentCaller, script,
               ctorVars, loopVars, helperVars>>

\* one declaration of the unit, at the scope the table is at
DeclareLinked ==
    /\ pc = "declarations"
    /\ steps < MaxDeclarations
    /\ \E d \in LinkDeclarations, uninit \in UninitOps :
         \E r \in {declareVariable(currentLoc, d.identifier, d.type, d.arraySizes, d.initializer,
                                    symbolTable, uninit)} :
             /\ symbolTable' = r.tab
             /\ initNode' = r.initNode
             /\ linkage' = linkage \o r.linkage
             /\ Report(r.errs)
    /\ steps' = steps + 1
    /\ UNCHANGED <<pc, linkFrame>>

\* one interface block of the unit
AddBlock ==
    /\ pc = "declarations"
    /\ steps < MaxDeclarations
    /\ \E b \in LinkBlocks :
         \E r \in {addBlock(currentLoc, b.blockName, b.storage, BlockTypeList(b.memberNames),
                            b.memberNames, b.instanceName, symbolTable)} :
             /\ symbolTable' = r.tab
             /\ linkage' = linkage \o r.linkage
             /\ Report(r.errs)
    /\ steps' = steps + 1
    /\ UNCHANGED <<pc, initNode, linkFrame>>

\* the body of a function opens a scope, and its end closes it
EnterScope ==
    /\ pc = "declarations"
    /\ atGlobalLevel(symbolTable)
    /\ symbolTable' = push(symbolTable)
    /\ UNCHANGED <<pc, numErrors, errLog, steps, linkage, initNode, linkFrame>>

LeaveScope ==
    /\ pc = "declarations"
    /\ ~atGlobalLevel(symbolTable)
    /\ symbolTable' = pop(symbolTable)
    /\ UNCHANGED <<pc, numErrors, errLog, steps, linkage, initNode, linkFrame>>

LinkInit ==
    /\ pc = "declarations"
    /\ ContextInit
    /\ DriverIdle
    /\ FieldsIdle
    /\ limits = NoLimits
    /\ \E c \in Configs : version = c.version /\ profile = c.profile /\ language = c.language
    /\ symbolTable = DeclTable
    /\ node = NullNode
    /\ call = NoCall
    /\ steps = 0
    /\ DeclIdle
    /\ CtorIdle
    /\ LoopIdle
    /\ HelperIdle

LinkNext ==
    \/ DeclareLinked
    \/ AddBlock
    \/ EnterScope
    \/ LeaveScope

SpecLink == LinkInit /\ [][LinkNext]_vars

--------------------------------------------------------------------------
(* The handlers that write to a symbol they looked up, over a table whose *)
(* built-in level holds a variable and functions                          *)

MaxWrites == 3

\* addQualifierToExisting(loc, qualifier, identifier): [errs, tab]
addQualifierToExisting(loc, qualifier, identifier, tab) ==
    LET symbol == find(tab, identifier)
        isMemory == \/ qualifier.coherent \/ qualifier.volatil \/ qualifier.restrict
                    \/ qualifier.readonly \/ qualifier.writeonly
        requalified(t, sym) ==
            IF qualifier.invariant
            THEN replaceAt(t, FindLevel(t, identifier), [sym EXCEPT !.invariant = TRUE])
            ELSE t
    IN  IF symbol.kind = "None"
        THEN [errs |-> <<error(loc, "identifier not previously declared", identifier)>>, tab |-> tab]
        ELSE IF symbol.kind = "Function"
        THEN [errs |-> <<error(loc, "cannot re-qualify a function name", identifier)>>, tab |-> tab]
        ELSE IF \/ isAuxiliary(qualifier) \/ isMemory \/ isInterpolation(qualifier)
                \/ qualifier.storage # "EvqTemporary" \/ qualifier.precision # "EpqNone"
        THEN [errs |-> <<error(loc, "cannot add storage, auxiliary, memory, interpolation, or precision qualifier to an existing variable",
                               identifier)>>,
              tab |-> tab]
        ELSE IF symbol.readOnly
        THEN [errs |-> <<>>,
              tab |-> requalified(copyUp(tab, symbol), [symbol EXCEPT !.readOnly = FALSE])]
        ELSE [errs |-> <<>>, tab |-> requalified(tab, symbol)]

\* the identifiers written to; zz is declared nowhere
WrittenNames == {"gl_TexCoord", "a", "zz"}

WrittenQualifiers ==
    { [ClearQualifier EXCEPT !.invariant = TRUE],
      [ClearQualifier EXCEPT !.invariant = TRUE, !.storage = "EvqVaryingOut"] }

\* the declarations that redeclare or size an array
WrittenDeclarations ==
    { d \in LinkDeclarations : d.text \in {"vec4 gl_TexCoord[2];", "float a[];", "float a[2];"} }

\* the function definitions tried: one of a built-in function's signature
WrittenFunctions ==
    { [name |-> "sin", type |-> FloatType, params |-> <<InFloat>>, paramNames |-> <<"x">>],
      [name |-> "f", type |-> VoidType, params |-> <<InFloat>>, paramNames |-> <<"x">>] }

writeFrame == <<driverVars, fieldVars, configVars, node, call, currentCaller, script,
                ctorVars, loopVars, helperVars>>

\* an index into a variable's unsized array: updateMaxArraySize on the
\* symbol node handleVariable made of it
UpdateMaxArraySize ==
    /\ pc = "writes"
    /\ steps < MaxWrites
    /\ \E name \in WrittenNames, index \in {0, 3} :
         /\ find(symbolTable, name).kind = "Variable"
         /\ \E r \in {updateMaxArraySize(currentLoc,
                                         addSymbol(find(symbolTable, name).uniqueId, name,
                                                   find(symbolTable, name).type),
                                         index, symbolTable)} :
              /\ symbolTable' = r.tab
              /\ Report(r.errs)
    /\ steps' = steps + 1
    /\ UNCHANGED <<pc, mainCount, linkage, initNode, writeFrame>>

AddQualifierToExisting ==
    /\ pc = "writes"
    /\ steps < MaxWrites
    /\ \E qualifier \in WrittenQualifiers, identifier \in WrittenNames :
         \E r \in {addQualifierToExisting(currentLoc, qualifier, identifier, symbolTable)} :
             /\ symbolTable' = r.tab
             /\ Report(r.errs)
    /\ steps' = steps + 1
    /\ UNCHANGED <<pc, mainCount, linkage, initNode, writeFrame>>

\* a declaration with array sizes: redeclareBuiltin and declareArray
RedeclareArray ==
    /\ pc = "writes"
    /\ steps < MaxWrites
    /\ \E d \in WrittenDeclarations, uninit \in UninitOps :
         \E r \in {declareVariable(currentLoc, d.identifier, d.type, d.arraySizes, d.initializer,
                                    symbolTable, uninit)} :
             /\ symbolTable' = r.tab
             /\ initNode' = r.initNode
             /\ linkage' = linkage \o r.linkage
             /\ Report(r.errs)
    /\ steps' = steps + 1
    /\ UNCHANGED <<pc, mainCount, writeFrame>>

\* a function header followed by a body: handleFunctionDeclarator when the
\* header is complete, then handleFunctionPrototype at the body's start
DefineWritten ==
    /\ pc = "writes"
    /\ steps < MaxWrites
    /\ atGlobalLevel(symbolTable)
    /\ \E function \in WrittenFunctions :
         \E d \in {handleFunctionDeclarator(currentLoc, function, symbolTable)} :
           \E r \in {handleFunctionPrototype(currentLoc, function, d.tab)} :
             /\ symbolTable' = r.tab
             /\ Report(d.errs \o r.errs)
             /\ mainCount' = mainCount + r.mains
    /\ steps' = steps + 1
    /\ UNCHANGED <<pc, linkage, initNode, writeFrame>>

\* the end of the function's body
LeaveWritten ==
    /\ pc = "writes"
    /\ ~atGlobalLevel(symbolTable)
    /\ symbolTable' = pop(symbolTable)
    /\ UNCHANGED <<pc, numErrors, errLog, steps, mainCount, linkage, initNode, writeFrame>>

WriteInit ==
    /\ pc = "writes"
    /\ ContextInit
    /\ DriverIdle
    /\ FieldsIdle
    /\ limits = NoLimits
    /\ \E c \in Configs : version = c.version /\ profile = c.profile /\ language = c.language
    /\ symbolTable = DeclTable
    /\ node = NullNode
    /\ call = NoCall
    /\ steps = 0
    /\ DeclIdle
    /\ CtorIdle
    /\ LoopIdle
    /\ HelperIdle

WriteNext ==
    \/ UpdateMaxArraySize
    \/ AddQualifierToExisting
    \/ RedeclareArray
    \/ DefineWritten
    \/ LeaveWritten

SpecWrite == WriteInit /\ [][WriteNext]_vars

--------------------------------------------------------------------------
(* Uses of names, declared and undeclared, in expressions of the form     *)
(*     name, name.x, name[name], name[name.x]                             *)

MaxUses == 4

\* the names used; u and w are declared nowhere
UseNames == {"u", "w", "gl_TexCoord"}

useFrame == <<driverVars, fieldVars, configVars, node, call, declVars, ctorVars, loopVars,
              initVars, funcVars, parserVars, precVars, mergeVars, switchVars,
              contextPragma, pragmaCalls>>

\* a name in an expression: the symbol is the one the lookup finds when
\* the name is read
UseName ==
    /\ pc = "uses"
    /\ steps < MaxUses
    /\ Len(operands) < 2
    /\ \E string \in UseNames :
         \E r \in {handleVariable(currentLoc, find(symbolTable, string), string, symbolTable)} :
             /\ operands' = Append(operands, r.result)
             /\ Report(r.errs)
    /\ steps' = steps + 1
    /\ UNCHANGED <<pc, symbolTable, useFrame>>

\* ".x" after the latest expression
SelectUsed ==
    /\ pc = "uses"
    /\ steps < MaxUses
    /\ operands # <<>>
    /\ \E ub \in UbValues, uninit \in UninitOps :
         \E r \in {handleDotDereference(currentLoc, operands[Len(operands)], <<"x">>,
                                         symbolTable, ub, uninit)} :
             /\ operands' = [operands EXCEPT ![Len(operands)] = r.result]
             /\ symbolTable' = r.tab
             /\ Report(r.errs)
    /\ steps' = steps + 1
    /\ UNCHANGED <<pc, useFrame>>

\* "]" after an index: the expression before the "[" is the base
IndexUsed ==
    /\ pc = "uses"
    /\ steps < MaxUses
    /\ Len(operands) = 2
    /\ \E ub \in UbValues :
         \E r \in {handleBracketDereference(currentLoc, operands[1], operands[2],
                                            symbolTable, ub)} :
             /\ operands' = <<r.result>>
             /\ symbolTable' = r.tab
             /\ Report(r.errs)
    /\ steps' = steps + 1
    /\ UNCHANGED <<pc, useFrame>>

\* the end of the expression
EndExpression ==
    /\ pc = "uses"
    /\ operands # <<>>
    /\ operands' = <<>>
    /\ UNCHANGED <<pc, numErrors, errLog, symbolTable, steps, useFrame>>

\* the start of a function's body
UseInBody ==
    /\ pc = "uses"
    /\ operands = <<>>
    /\ atGlobalLevel(symbolTable)
    /\ symbolTable' = push(symbolTable)
    /\ UNCHANGED <<pc, numErrors, errLog, operands, steps, useFrame>>

UseInit ==
    /\ pc = "uses"
    /\ ContextInit
    /\ DriverIdle
    /\ FieldsIdle
    /\ limits = NoLimits
    /\ \E c \in Configs : version = c.version /\ profile = c.profile /\ language = c.language
    /\ symbolTable = DeclTable
    /\ node = NullNode
    /\ call = NoCall
    /\ steps = 0
    /\ DeclIdle
    /\ CtorIdle
    /\ LoopIdle
    /\ HelperIdle

UseNext ==
    \/ UseName
    \/ SelectUsed
    \/ IndexUsed
    \/ EndExpression
    \/ UseInBody

SpecUse == UseInit /\ [][UseNext]_vars

--------------------------------------------------------------------------
(* Declarations of const and other variables, with and without an         *)
(* initializer, at global scope and in a function body                    *)

MaxConstDecls == 2

ConstQualifiers == {"EvqConst", "EvqTemporary", "EvqUniform"}

\* no initializer, a constant of the variable's type and one of another
\* type, a variable, and a list in braces
ConstInitializers ==
    { NullNode,
      addConstantUnion(<<2>>, Const(FloatType)),
      addConstantUnion(<<1, 2, 3>>, Const(Vec3Type)),
      addSymbol(1, "x", FloatType),
      [NullNode EXCEPT !.kind = "Aggregate", !.op = "EOpNull",
                       !.children = [i \in 1..3 |-> addConstantUnion(<<i>>, Const(FloatType))]] }

ConstIdentifiers == {"a", "b"}

ConstArraySizes == { <<>>, <<2>> }

constFrame == <<driverVars, fieldVars, configVars, node, call, mainCount, currentCaller, script,
                ctorVars, loopVars, helperVars>>

DeclareConst ==
    /\ pc = "const_declarations"
    /\ steps < MaxConstDecls
    /\ \E qualifier \in ConstQualifiers, identifier \in ConstIdentifiers,
          arraySizes \in ConstArraySizes, initializer \in ConstInitializers,
          uninit \in UninitOps :
         \E r \in {declareVariable(currentLoc, identifier, [FloatType EXCEPT !.storage = qualifier],
                                    arraySizes, initializer, symbolTable, uninit)} :
             /\ symbolTable' = r.tab
             /\ initNode' = r.initNode
             /\ linkage' = linkage \o r.linkage
             /\ Report(r.errs)
    /\ steps' = steps + 1
    /\ UNCHANGED <<pc, constFrame>>

ConstInit ==
    /\ pc = "const_declarations"
    /\ ContextInit
    /\ DriverIdle
    /\ FieldsIdle
    /\ limits = NoLimits
    /\ \E c \in Configs : version = c.version /\ profile = c.profile /\ language = c.language
    /\ symbolTable \in {DeclTable, push(DeclTable)}
    /\ node = NullNode
    /\ call = NoCall
    /\ steps = 0
    /\ DeclIdle
    /\ CtorIdle
    /\ LoopIdle
    /\ HelperIdle

ConstNext == DeclareConst

SpecConst == ConstInit /\ [][ConstNext]_vars

--------------------------------------------------------------------------
(* Pragmas: the token sequences the preprocessor hands to handlePragma *)

MaxPragmas == 2

\* handlePragma(tokens, numTokens), numTokens being the length of tokens and
\* PRAGMA_TABLE not defined: [pragma, errs]
handlePragma(tokens, pragma) ==
    LET numTokens == Len(tokens)
        keyword == tokens[1]
        failed(szReason) == [pragma |-> pragma, errs |-> <<error(currentLoc, szReason, "#pragma")>>]
        closed(set) ==
            IF tokens[4] # ")"
            THEN [pragma |-> set,
                  errs |-> <<error(currentLoc, "\")\" expected to end '" \o keyword \o "' pragma",
                                   "#pragma")>>]
            ELSE [pragma |-> set, errs |-> <<>>]
    IN  IF keyword \in {"optimize", "debug"}
        THEN IF numTokens # 4 THEN failed(keyword \o " pragma syntax is incorrect")
             ELSE IF tokens[2] # "("
             THEN failed("\"(\" expected after '" \o keyword \o "' keyword")
             ELSE IF tokens[3] = "on" THEN closed([pragma EXCEPT ![keyword] = TRUE])
             ELSE IF tokens[3] = "off" THEN closed([pragma EXCEPT ![keyword] = FALSE])
             ELSE failed("\"on\" or \"off\" expected after '(' for '" \o keyword \o "' pragma")
        ELSE [pragma |-> pragma, errs |-> <<>>]

\* the pragmas tried: well formed ones, and ones with a token missing,
\* wrong or too many
PragmaTokens ==
    UNION { { <<k, "(", "on", ")">>, <<k, "(", "off", ")">>, <<k, "(", "on">>, <<k>>,
              <<k, "(", "off", "]">>, <<k, "(", "on", ")", ")">>, <<k, "[", "on", ")">>,
              <<k, "(", "fast", ")">> } : k \in {"optimize", "debug"} }
    \cup { <<"STDGL", "invariant", "(", "all", ")">>, <<"once">> }

pragmaFrame == <<driverVars, fieldVars, configVars, exprVars, declVars, ctorVars, loopVars,
                 initVars, funcVars, parserVars, precVars, mergeVars, switchVars, operands>>

HandlePragma ==
    /\ pc = "pragmas"
    /\ Len(pragmaCalls) < MaxPragmas
    /\ \E tokens \in PragmaTokens :
         \E r \in {handlePragma(tokens, contextPragma)} :
             /\ contextPragma' = r.pragma
             /\ Report(r.errs)
             /\ pragmaCalls' = Append(pragmaCalls,
                                      [tokens |-> tokens, before |-> contextPragma,
                                       after |-> r.pragma, errs |-> r.errs])
    /\ UNCHANGED <<pc, pragmaFrame>>

PragmaInit ==
    /\ pc = "pragmas"
    /\ ContextInit
    /\ DriverIdle
    /\ FieldsIdle
    /\ limits = NoLimits
    /\ \E c \in Configs : version = c.version /\ profile = c.profile /\ language = c.language
    /\ ExprIdle
    /\ DeclIdle
    /\ CtorIdle
    /\ LoopIdle
    /\ InitIdle
    /\ FuncIdle
    /\ ParserIdle
    /\ PrecIdle
    /\ MergeIdle
    /\ SwitchIdle
    /\ UseIdle
    /\ PragmaIdle

PragmaNext == HandlePragma

SpecPragma == PragmaInit /\ [][PragmaNext]_vars

--------------------------------------------------------------------------
(* The driver's contract *)

\* C1: parseShaderStrings returns false if and only if the error count is
\* greater than zero when it returns, on every path.
C1_ReturnIffErrors ==
    pc = "returned" => (retVal = FALSE <=> numErrors > 0)

\* a full parse that collected an error and returned false
C1_Witness ==
    /\ pc = "returned"
    /\ retVal = FALSE
    /\ Len(strings) > 0
    /\ FirstNull(strings) = 0
    /\ numErrors > 0

\* C2: whenever some sub-string of the input is null, the call reports an
\* error located at that string, line 1, and returns false.
C2_NullSubStringFails ==
    (pc = "returned" /\ \E i \in 1..Len(strings) : strings[i].isNull)
        => /\ retVal = FALSE
           /\ \E i \in 1..Len(strings), k \in 1..Len(errLog) :
                /\ strings[i].isNull
                /\ errLog[k].loc = [string |-> i - 1, line |-> 1]
                /\ errLog[k].reason = "Null shader source string"

--------------------------------------------------------------------------
(* Swizzle decoding *)

XYZW == <<"x", "y", "z", "w">>
RGBA == <<"r", "g", "b", "a">>
STPQ == <<"s", "t", "p", "q">>

PosIn(set, c) == CHOOSE k \in 0..3 : set[k + 1] = c

WellFormedSelector(str, size) ==
    /\ Len(str) <= 4
    /\ \E set \in {XYZW, RGBA, STPQ} :
          \A i \in 1..Len(str) :
              /\ str[i] \in Range(set)
              /\ PosIn(set, str[i]) < size

SelectorOffsets(str) ==
    [i \in 1..Len(str) |->
        LET set == CHOOSE t \in {XYZW, RGBA, STPQ} : str[i] \in Range(t)
        IN  PosIn(set, str[i])]

\* C5: parseVectorFields(s, n) returns true iff s has at most 4 characters,
\* all from one of the sets xyzw, rgba, stpq, each at a position below n; on
\* success fields.num is the length of s and offsets[i] the position of s[i]
\* in its set; on failure exactly one error is reported.
C5_ParseVectorFields ==
    pc = "fields_done" =>
        /\ fieldsOk <=> WellFormedSelector(compString, vecSize)
        /\ fieldsOk => /\ fields.num = Len(compString)
                       /\ fields.offsets = SelectorOffsets(compString)
                       /\ numErrors = 0
        /\ ~fieldsOk => numErrors = 1

\* a mixed-set selector of in-range characters was rejected
C5_Witness ==
    /\ pc = "fields_done"
    /\ compString = <<"x", "r">>
    /\ vecSize = 2
    /\ ~fieldsOk

--------------------------------------------------------------------------
(* The dereference and call handlers' contract *)

DerefHandlers == {"handleBracketDereference", "handleDotDereference", "handleFunctionCall"}

\* C3: handleBracketDereference, handleDotDereference and handleFunctionCall
\* return a non-null typed node on every path, error paths included
C3_HandlersNeverReturnNull ==
    call.handler \in DerefHandlers => node.kind # "Null"

\* how many components a node handleDotDereference made of a vector carries:
\* the folded constant's values, the swizzle's indexes, or the one index
ComponentsCarried(n) ==
    IF n.kind = "ConstantUnion" THEN Len(n.constArray)
    ELSE IF n.kind = "Binary" /\ n.op = "EOpVectorSwizzle" THEN Len(n.children[2].children)
    ELSE 1

\* C6: what handleDotDereference returns for a vector base has the swizzle
\* string's length as its vector size and as the number of components it
\* carries, and selects offsets below the base's vector size
C6_SwizzleShape ==
    (call.handler = "handleDotDereference" /\ isVector(call.base.type) /\ ~isArray(call.base.type))
        => /\ node.type.vectorSize = Len(call.field)
           /\ ComponentsCarried(node) = Len(call.field)
           /\ \A i \in 1..call.flds.num : call.flds.offsets[i] < call.base.type.vectorSize

\* handleBracketDereference has just made an IndexDirect node of a sized array
DirectIndexOfSizedArray ==
    /\ call.handler = "handleBracketDereference"
    /\ node.kind = "Binary" /\ node.op = "EOpIndexDirect"
    /\ isArray(call.base.type) /\ call.base.type.arraySize > 0

IndexInRange ==
    LET k == node.children[2].constArray[1]
    IN  0 <= k /\ k < call.base.type.arraySize

\* C7: every IndexDirect node handleBracketDereference makes of a sized
\* array has a constant index k with 0 <= k < array size
C7_DirectIndexInRange == DirectIndexOfSizedArray => IndexInRange

--------------------------------------------------------------------------
(* Scenario S1 *)

\* void main(){ vec3 v=vec3(1.0,2.0,3.0); float f=v.zxy.x; }
S1Script == <<"void main()", "vec3(1.0,2.0,3.0)", "v=", "v", ".zxy", ".x", "f=">>

\* the same with v declared const
S1ConstScript == <<"void main()", "vec3(1.0,2.0,3.0)", "const v=", "v", ".zxy", ".x", "f=">>

Handled(text) == pc = "function_body_done" /\ script = text

\* the value the code made for f's initialization is the assignment of e to f
AssignsToF(e) ==
    /\ initNode.kind = "Binary" /\ initNode.op = "EOpAssign"
    /\ initNode.children[1].kind = "Symbol" /\ initNode.children[1].name = "f"
    /\ initNode.children[2] = e

ConstantThree == addConstantUnion(<<3>>, Const(FloatType))

\* v.zxy.x as index and swizzle nodes over the symbol v
SwizzleOfV ==
    LET v == find(symbolTable, "v")
        zxy == setType(addIndex("EOpVectorSwizzle", addSymbol(v.uniqueId, "v", Vec3Type),
                                addSwizzle([num |-> 3, offsets |-> <<2, 0, 1>>])),
                       Vec3Type)
    IN  setType(addIndex("EOpIndexDirect", zxy,
                         addConstantUnion(<<0>>, TType("EbtInt", "EvqConst", 1, 0, 0))),
                FloatType)

\* C4, as claimed: for S1 there are 0 errors, main is registered once, and
\* f's initializer is the constant 3.0
C4_S1FoldsInitializer ==
    Handled(S1Script) => numErrors = 0 /\ mainCount = 1 /\ AssignsToF(ConstantThree)

\* C4, amended: for S1 there are 0 errors and main is registered once; f's
\* initializer stays the index-of-swizzle expression over the symbol v, and
\* it is the constant 3.0 when v is declared const
C4_S1KeepsSwizzleOfVariable ==
    /\ Handled(S1Script) => numErrors = 0 /\ mainCount = 1 /\ AssignsToF(SwizzleOfV)
    /\ Handled(S1ConstScript) => numErrors = 0 /\ mainCount = 1 /\ AssignsToF(ConstantThree)

C4_Witness == Handled(S1Script) /\ AssignsToF(SwizzleOfV)

--------------------------------------------------------------------------
(* constructorError's contract *)

\* an argument follows the point where the arguments before it already
\* reached the size of the type constructed
HasUnusedArgument(c) ==
    \E i \in 2..Len(c.params) :
        ParamSizes(SubSeq(c.params, 1, i - 1)) >= getObjectSize(c.type)

\* C8: constructorError returns true for every constructor call of a type
\* that is no array and no structure and that has an unused argument
C8_UnusedArgumentIsError ==
    (/\ pc = "constructor_checked"
     /\ ~isArray(ctorCall.type) /\ ~isStruct(ctorCall.type)
     /\ HasUnusedArgument(ctorCall))
        => ctorResult.err

--------------------------------------------------------------------------
(* inductiveLoopCheck's contract *)

Checked == pc = "loops" /\ loopsChecked > 0

InitErrorReported == \E k \in 1..Len(loopErrs) : loopErrs[k] = InitError

\* the init is an aggregate of exactly one assignment of a constant to a
\* scalar int or float symbol
WellFormedInit(init) ==
    /\ init.kind = "Aggregate" /\ Len(init.children) = 1
    /\ init.children[1].kind = "Binary" /\ init.children[1].op = "EOpAssign"
    /\ init.children[1].children[1].kind = "Symbol"
    /\ isScalar(init.children[1].children[1].type)
    /\ init.children[1].children[1].type.basic \in {"EbtInt", "EbtFloat"}
    /\ init.children[1].children[2].kind = "ConstantUnion"

\* C9: inductiveLoopCheck reports the init-declaration error for every init
\* that is missing, no aggregate, or an aggregate of other than one element,
\* and it accepts (reports no error on) only a well-formed init
C9_InitMustBeOneDeclaration ==
    Checked =>
        /\ (\/ lastLoop.init.kind # "Aggregate"
            \/ Len(lastLoop.init.children) # 1) => InitErrorReported
        /\ loopErrs = <<>> => WellFormedInit(lastLoop.init)

\* for(int i=0;i<4;<terminal>), the body leaving i alone
CountingLoop(terminal) ==
    [init |-> Sequence(<<Binary("EOpAssign", LoopSymbols.i, IntConst(0))>>),
     test |-> Binary("EOpLessThan", LoopSymbols.i, IntConst(4)),
     terminal |-> terminal,
     body |-> [modifiesIndex |-> FALSE]]

\* C10, as claimed: for(int i=0;i<4;++i) is accepted, no error is reported
C10_PrefixIncrementAccepted ==
    (Checked /\ lastLoop = CountingLoop(Unary("EOpPreIncrement", LoopSymbols.i)))
        => loopErrs = <<>>

\* C10, amended: for(int i=0;i<4;++i) gets the one error about the loop's
\* termination form, and for(int i=0;i<4;i++) is accepted without an error
C10_OnlyPostfixIncrementAccepted ==
    /\ (Checked /\ lastLoop = CountingLoop(Unary("EOpPreIncrement", LoopSymbols.i)))
          => /\ Len(loopErrs) = 1
             /\ loopErrs[1].reason = "inductive-loop termination requires the form \"loop-index++, loop-index--, loop-index += constant-expression, or loop-index -= constant-expression\""
    /\ (Checked /\ lastLoop = CountingLoop(Unary("EOpPostIncrement", LoopSymbols.i)))
          => loopErrs = <<>>

C10_Witness ==
    /\ Checked
    /\ lastLoop = CountingLoop(Unary("EOpPreIncrement", LoopSymbols.i))
    /\ Len(loopErrs) = 1

--------------------------------------------------------------------------
(* executeInitializer's contract *)

\* the call stored the folded constant on the variable and made no code
StoredConstant(c) ==
    /\ c.initNode.kind = "Null"
    /\ c.variable.constArray # <<>>
    /\ c.variable.type.storage = c.qualifier

\* the call made the assignment of the initializer to the variable's symbol
EmitsAssign(c) ==
    /\ c.initNode.kind = "Binary"
    /\ c.initNode.op = "EOpAssign"
    /\ c.initNode.children[1].kind = "Symbol"
    /\ c.initNode.children[1].name = c.variable.name

FoldsOrReports(c) == (StoredConstant(c) /\ c.errs = <<>>) \/ (c.errs # <<>> /\ ~EmitsAssign(c))

\* a variable declared const inside a function, its initializer not constant
LocalConstOfVariable(c) ==
    /\ c.qualifier = "EvqConst"
    /\ ~c.atGlobalLevel
    /\ c.initializer.kind = "Symbol"
    /\ c.initializer.type.storage # "EvqConst"

--------------------------------------------------------------------------
(* The function headers' contract *)

\* the header declares again, with the same return type and the same
\* parameter qualifiers, a function declared at the current scope
SamePrototypeAgain(c) ==
    /\ c.handler = "handleFunctionDeclarator"
    /\ c.previous.kind = "Function"
    /\ Shape(c.previous.type) = Shape(c.function.type)
    /\ c.previous.params = c.function.params

\* C12: a second handleFunctionDeclarator for a function already declared at
\* the same scope with the identical prototype reports no error
C12_RedeclarationAllowed ==
    \A i \in 1..Len(funcCalls) : SamePrototypeAgain(funcCalls[i]) => funcCalls[i].errs = <<>>

BodyError(c) == \E k \in 1..Len(c.errs) : c.errs[k].reason = "function already has a body"

\* the call is the first handleFunctionPrototype for its mangled name
FirstDefinition(i) ==
    /\ funcCalls[i].handler = "handleFunctionPrototype"
    /\ \A j \in 1..(i - 1) :
          ~(/\ funcCalls[j].handler = "handleFunctionPrototype"
            /\ funcCalls[j].mangled = funcCalls[i].mangled)

\* C13: over every sequence of handleFunctionPrototype calls for declared
\* functions, the first call for a mangled name marks the function defined
\* and reports no "function already has a body"; every later call for that
\* mangled name reports it
C13_BodyErrorFromSecondDefinition ==
    \A i \in 1..Len(funcCalls) :
        funcCalls[i].handler = "handleFunctionPrototype"
            => /\ funcCalls[i].symbol.defined
               /\ BodyError(funcCalls[i]) <=> ~FirstDefinition(i)

C13_Witness ==
    \E i, j \in 1..Len(funcCalls) :
        /\ i < j
        /\ FirstDefinition(i)
        /\ ~BodyError(funcCalls[i])
        /\ funcCalls[j].handler = "handleFunctionPrototype"
        /\ funcCalls[j].mangled = funcCalls[i].mangled
        /\ BodyError(funcCalls[j])

--------------------------------------------------------------------------
(* finalize's contract *)

\* C14: after finalize, the indexes passed to the constant-index-expression
\* check are the indexes the handlers saved in needsIndexLimitationChecking,
\* each one once and in the order they were saved
C14_FinalizeVisitsInOrder ==
    pc = "finalized" => indexChecked = needsIndexLimitationChecking

C14_Witness ==
    /\ pc = "finalized"
    /\ Len(needsIndexLimitationChecking) = 2
    /\ indexChecked[1].name = "i"
    /\ indexChecked[2].name = "j"

--------------------------------------------------------------------------
(* parserError's contract *)

\* the call reported one syntax error at the current location, and the error
\* count went up by one
OneSyntaxError(c) ==
    /\ Len(c.errs) = 1
    /\ c.errs[1].loc = currentLoc
    /\ c.numErrors[2] = c.numErrors[1] + 1

PrematureEOF(c) == c.errs # <<>> /\ c.errs[1].token = "pre-mature EOF"

\* C15, as claimed: every call of parserError reports one syntax error at
\* the current location and adds one to the error count, whatever afterEOF
\* and tokensBeforeEOF are; the error says "pre-mature EOF" exactly when
\* afterEOF holds and tokensBeforeEOF is 1
C15_EveryCallReports ==
    \A i \in 1..Len(parserErrorCalls) :
        LET c == parserErrorCalls[i]
        IN  /\ OneSyntaxError(c)
            /\ PrematureEOF(c) <=> (c.afterEOF /\ c.tokensBeforeEOF = 1)

\* C15, amended: a call of parserError after the end of the input with
\* tokensBeforeEOF other than 1 reports nothing and leaves the error count;
\* every other call reports one syntax error at the current location and
\* adds one to the error count; the error says "pre-mature EOF" exactly when
\* afterEOF holds and tokensBeforeEOF is 1
C15_SilentAfterEOFWithoutOneToken ==
    \A i \in 1..Len(parserErrorCalls) :
        LET c == parserErrorCalls[i]
        IN  /\ (c.afterEOF /\ c.tokensBeforeEOF # 1)
                  => c.errs = <<>> /\ c.numErrors[2] = c.numErrors[1]
            /\ ~(c.afterEOF /\ c.tokensBeforeEOF # 1) => OneSyntaxError(c)
            /\ PrematureEOF(c) <=> (c.afterEOF /\ c.tokensBeforeEOF = 1)

C15_Witness ==
    \E i, j \in 1..Len(parserErrorCalls) :
        /\ parserErrorCalls[i].afterEOF
        /\ parserErrorCalls[i].tokensBeforeEOF = 0
        /\ parserErrorCalls[i].errs = <<>>
        /\ parserErrorCalls[j].afterEOF
        /\ PrematureEOF(parserErrorCalls[j])

--------------------------------------------------------------------------
(* The default precisions' contract *)

\* the tables the i-th precision statement left
PrecisionAfter(i) ==
    IF i < Len(precisionCalls) THEN precisionCalls[i + 1].before
    ELSE [prec |-> defaultPrecision, samplerPrec |-> defaultSamplerPrecision]

SamplerType(sm) == [basicType |-> "EbtSampler", vectorSize |-> 1, sampler |-> sm]

\* the precision the tables hold for a sampler type
SamplerPrecisionIn(tables, sm) == getDefaultPrecision(SamplerType(sm), tables.prec, tables.samplerPrec)

\* C16: computeSamplerTypeIndex gives different sampler types (scalar kind,
\* dimension, arrayed, shadow, ms, image) different indexes, so that
\* setDefaultPrecision for one sampler type leaves getDefaultPrecision of
\* every other sampler type as it was
C16_SamplerIndexInjective ==
    \A i \in 1..Len(precisionCalls) :
        precisionCalls[i].publicType.basicType = "EbtSampler"
           => \A other \in Samplers \ {precisionCalls[i].publicType.sampler} :
                 /\ computeSamplerTypeIndex(other)
                       # computeSamplerTypeIndex(precisionCalls[i].publicType.sampler)
                 /\ SamplerPrecisionIn(PrecisionAfter(i), other)
                       = SamplerPrecisionIn(precisionCalls[i].before, other)

--------------------------------------------------------------------------
(* mergeQualifiers' contract *)

StorageError(c) == \E k \in 1..Len(c.errs) : c.errs[k].reason = "too many storage qualifiers"

\* the storage the rows of the merge table give, read in their order
TableStorage(d, src) ==
    IF d \in {"EvqTemporary", "EvqGlobal"} THEN src
    ELSE IF {d, src} = {"EvqIn", "EvqOut"} THEN "EvqInOut"
    ELSE IF {d, src} = {"EvqIn", "EvqConst"} THEN "EvqConstReadOnly"
    ELSE d

\* the pairs of the table's first three rows
InTableRows(d, src) ==
    \/ d \in {"EvqTemporary", "EvqGlobal"}
    \/ {d, src} = {"EvqIn", "EvqOut"}
    \/ {d, src} = {"EvqIn", "EvqConst"}

\* C17: mergeQualifiers leaves dst.storage as the merge table says, its rows
\* read in order: src.storage when dst is temporary or global; inout for in
\* with out; const_readonly for in with const; for every other pair dst.storage
\* is unchanged, with the error "too many storage qualifiers" when src is not
\* temporary and without it when src is temporary
C17_StorageMergeTable ==
    \A i \in 1..Len(mergeCalls) :
        LET c == mergeCalls[i]
        IN  /\ c.merged.storage = TableStorage(c.dst.storage, c.src.storage)
            /\ StorageError(c) <=> (/\ ~InTableRows(c.dst.storage, c.src.storage)
                                    /\ c.src.storage # "EvqTemporary")

C17_Witness ==
    \E i, j \in 1..Len(mergeCalls) :
        /\ mergeCalls[i].dst.storage = "EvqTemporary" /\ mergeCalls[i].src.storage = "EvqIn"
        /\ mergeCalls[i].merged.storage = "EvqIn"
        /\ mergeCalls[j].dst.storage = "EvqIn" /\ mergeCalls[j].src.storage = "EvqConst"
        /\ mergeCalls[j].merged.storage = "EvqConstReadOnly"
        /\ ~StorageError(mergeCalls[j])

AuxiliaryFlags(q) == { f \in {"centroid", "patch", "sample"} : q[f] }

InterpolationFlags(q) == { f \in {"smooth", "flat", "nopersp"} : q[f] }

\* C18: the merged qualifiers having at most one auxiliary flag and at most
\* one interpolation flag each, dst has at most one auxiliary flag and at
\* most one interpolation flag after every sequence of mergeQualifiers calls
C18_AtMostOneAuxiliaryAndInterpolation ==
    /\ Cardinality(AuxiliaryFlags(dst)) <= 1
    /\ Cardinality(InterpolationFlags(dst)) <= 1

\* C19: merging a qualifier into a copy of itself with force leaves the copy
\* equal to the qualifier: storage, precision, layout and every flag
C19_ForcedSelfMergeKeepsQualifier ==
    \A i \in 1..Len(mergeCalls) :
        (mergeCalls[i].force /\ mergeCalls[i].src = mergeCalls[i].dst)
            => mergeCalls[i].merged = mergeCalls[i].dst

C19_Witness ==
    \E i \in 1..Len(mergeCalls) :
        /\ mergeCalls[i].force
        /\ mergeCalls[i].src = mergeCalls[i].dst
        /\ mergeCalls[i].dst.storage = "EvqIn"
        /\ mergeCalls[i].merged = mergeCalls[i].dst

--------------------------------------------------------------------------
(* handleBracketDereference's result *)

\* the last handler was handleBracketDereference, on a base that is an
\* array, a matrix or a vector
Indexed ==
    /\ call.handler = "handleBracketDereference"
    /\ (isArray(call.base.type) \/ isMatrix(call.base.type) \/ isVector(call.base.type))

\* C20: the node handleBracketDereference returns is const-qualified if and
\* only if the base and the index are both const-qualified, and its type is
\* the base's type with the outer dimension removed
C20_ConstIffBothConst ==
    Indexed
        => /\ node.type.storage = "EvqConst"
                <=> (/\ call.base.type.storage = "EvqConst"
                     /\ call.index.type.storage = "EvqConst")
           /\ Shape(node.type) = Shape(dereference(call.base.type))

--------------------------------------------------------------------------
(* The switch assembly's contract *)

InnermostSequence == switchSequenceStack[Len(switchSequenceStack)]

InnermostLabels == SelectSeq(InnermostSequence, LAMBDA n : n.kind = "Branch")

\* the innermost sequence is well formed: a label first, at most one
\* default, no constant case value twice
WellFormedSwitch ==
    /\ InnermostSequence # <<>> => InnermostSequence[1].kind = "Branch"
    /\ \A i, j \in 1..Len(InnermostLabels) :
          (/\ i # j
           /\ InnermostLabels[i].op = "EOpDefault") => InnermostLabels[j].op # "EOpDefault"
    /\ \A i, j \in 1..Len(InnermostLabels) :
          (/\ i # j
           /\ getExpression(InnermostLabels[i]).kind = "ConstantUnion"
           /\ getExpression(InnermostLabels[j]).kind = "ConstantUnion")
             => getExpression(InnermostLabels[i]).constArray
                   # getExpression(InnermostLabels[j]).constArray

\* C21: after every sequence of wrapupSwitchSubsequence calls for one switch
\* in which no error was reported, the innermost switch sequence starts with
\* a label, has at most one default and no constant case value twice; and
\* every call leaves the sequences of the enclosing switches as they were
C21_SwitchSequenceWellFormed ==
    /\ [](pc = "switch_body" /\ numErrors = 0 => WellFormedSwitch)
    /\ [][pc = "switch_body"
            => /\ Len(switchSequenceStack') = Len(switchSequenceStack)
               /\ \A k \in 1..(Len(switchSequenceStack) - 1) :
                     switchSequenceStack'[k] = switchSequenceStack[k]]_vars

C21_Witness ==
    /\ pc = "switch_body"
    /\ numErrors = 0
    /\ Len(switchSequenceStack) = 2
    /\ Len(InnermostLabels) = 2
    /\ Len(InnermostSequence) = 3

--------------------------------------------------------------------------
(* The linkage's contract *)

\* the symbols one step files at level l under a name the level did not hold
NewSymbols(l) ==
    IF l > Len(symbolTable.levels) \/ l > Len(symbolTable'.levels) THEN {}
    ELSE { x \in symbolTable'.levels[l] : Key(x) \notin NamesAt(symbolTable, l) }

\* the entry a block's name is reserved by
IsBlockName(x) == x.type.basic = "EbtBlock" /\ x.type.struct = <<>>

IsBlockInstance(x) == x.kind = "Variable" /\ x.type.basic = "EbtBlock" /\ x.type.struct # <<>>

NewGlobalVariables ==
    { x.name : x \in { y \in NewSymbols(GlobalLevel) : y.kind = "Variable" /\ ~IsBlockName(y) } }

NewBlockInstances ==
    { x.name : x \in { y \in NewSymbols(Len(symbolTable.levels)) : IsBlockInstance(y) } }

\* the entries of a set of at most one name
Listed(names) == IF names = {} THEN <<>> ELSE <<CHOOSE n \in names : TRUE>>

\* C22 as stated: every step appends to the linkage exactly the variables it
\* newly added to the global level of the symbol table and the block
\* instances it registered, whatever scope the declaration is made in
C22_LinkageListsNewGlobalSymbols ==
    [][pc = "declarations"
          => linkage' = linkage \o Listed(NewGlobalVariables \cup NewBlockInstances)]_vars

\* C22: every step appends to the linkage exactly the variables that a
\* declaration made at global scope newly added to the symbol table and the
\* block instances it registered, in the order of the declarations: a
\* redeclaration that only sizes an unsized array, a failed redefinition and
\* a declaration in a nested scope append nothing, the redeclaration of a
\* built-in variable in a nested scope included, though it files a clone of
\* the built-in at the global level
C22_LinkageListsGlobalScopeDeclarations ==
    [][pc = "declarations"
          => linkage' = linkage \o Listed((IF atGlobalLevel(symbolTable)
                                           THEN NewGlobalVariables ELSE {})
                                          \cup NewBlockInstances)]_vars

\* a sized redeclaration of an unsized array, a block instance and a
\* variable of a nested scope, the linkage listing the first two only
C22_Witness ==
    /\ pc = "declarations"
    /\ linkage = <<"a", "u">>
    /\ \E x \in symbolTable.levels[GlobalLevel] : x.name = "a" /\ x.type.arraySize = 2
    /\ Len(symbolTable.levels) > GlobalLevel
    /\ \E x \in symbolTable.levels[Len(symbolTable.levels)] : x.name = "b"
    /\ numErrors = 0

--------------------------------------------------------------------------
(* The built-in level's contract *)

\* the clones of built-in symbols that the unit's own levels hold
Clones ==
    { x \in UNION { symbolTable.levels[l] : l \in GlobalLevel..Len(symbolTable.levels) } :
        \E b \in BuiltInSymbols : Key(b) = Key(x) /\ b.uniqueId = x.uniqueId }

\* C23: no sequence of handlers changes a symbol of the built-in level:
\* the level stays as it was seeded, the symbols of the unit's own levels
\* are all writable, and once a clone of a built-in symbol exists a lookup
\* of its name finds a symbol of the unit's own levels
C23_BuiltInLevelNeverWritten ==
    pc = "writes"
        => /\ symbolTable.levels[BuiltInLevel] = BuiltInSymbols
           /\ \A l \in GlobalLevel..Len(symbolTable.levels) :
                 \A x \in symbolTable.levels[l] : ~x.readOnly
           /\ \A x \in Clones : /\ FindLevel(symbolTable, Key(x)) >= GlobalLevel
                                /\ ~find(symbolTable, Key(x)).readOnly

\* the built-in array was indexed, re-qualified and sized, and a function of
\* a built-in's signature was defined: the clone holds all of it
C23_Witness ==
    /\ pc = "writes"
    /\ \E x \in symbolTable.levels[GlobalLevel] :
          /\ x.name = "gl_TexCoord"
          /\ x.type.maxArraySize = 4
          /\ x.invariant
    /\ \E x \in Clones : x.name = "gl_TexCoord"
    /\ \E x \in symbolTable.levels[GlobalLevel] : x.name = "sin" /\ x.defined
    /\ numErrors = 0

--------------------------------------------------------------------------
(* The contract of undeclared names *)

\* how often "undeclared identifier" was reported for a name
UndeclaredReports(name) ==
    Len(SelectSeq(errLog, LAMBDA e : e.reason = "undeclared identifier" /\ e.token = name))

\* C24: a name that is not in the symbol table is reported as an undeclared
\* identifier once and filed as a float variable, so that no later use of
\* the name in the scopes still open is reported again: at most one
\* "undeclared identifier" per name, no scope being left
C24_UndeclaredReportedOnce ==
    pc = "uses"
        => \A name \in UseNames :
              /\ UndeclaredReports(name) <= 1
              /\ UndeclaredReports(name) = 1
                    => /\ find(symbolTable, name).kind = "Variable"
                       /\ find(symbolTable, name).type.basic = "EbtFloat"

--------------------------------------------------------------------------
(* The contract of const variables *)

AllSymbols == UNION { symbolTable.levels[l] : l \in 1..Len(symbolTable.levels) }

\* C25: after any sequence of declarations, every variable of the symbol
\* table whose storage qualifier is const holds a constant value; a const
\* declaration whose value could not be established is no longer const
C25_ConstHasValue ==
    pc = "const_declarations"
        => \A x \in AllSymbols :
              x.kind = "Variable" /\ x.type.storage = "EvqConst" => x.constArray # <<>>

\* a const variable with its value, and one const declaration without
\* initializer, which was reported and is a temporary
C25_Witness ==
    /\ pc = "const_declarations"
    /\ \E x \in AllSymbols : x.name = "a" /\ x.type.storage = "EvqConst" /\ x.constArray = <<2>>
    /\ \E x \in AllSymbols : x.name = "b" /\ x.type.storage = "EvqTemporary"
    /\ \E i \in 1..Len(errLog) :
          errLog[i].reason = "variables with qualifier 'const' must be initialized"

--------------------------------------------------------------------------
(* The range checks of constant indexes *)

\* the number of elements an index selects from: the size of a sized
\* array, else the columns of a matrix, else the components of a vector
KnownSize(t) ==
    IF t.isArray THEN t.arraySize
    ELSE IF t.matrixCols > 0 THEN t.matrixCols
    ELSE t.vectorSize

\* the last handler was handleBracketDereference with a constant index, on
\* a base whose size is known
ConstantIndexed ==
    /\ Indexed
    /\ call.index.kind = "ConstantUnion"
    /\ call.index.type.storage = "EvqConst"
    /\ ~(call.base.type.isArray /\ call.base.type.arraySize = 0)

\* C26: for a constant index k and a base of known size, const or not,
\* handleBracketDereference reports an error whenever k < 0 or k >= size
C26_ConstantIndexOutOfRangeReported ==
    /\ ConstantIndexed
    /\ \/ call.index.constArray[1] < 0
       \/ call.index.constArray[1] >= KnownSize(call.base.type)
    => call.errs # <<>>

--------------------------------------------------------------------------
(* The reads of constant folding *)

\* C27: folding an index or a swizzle into a constant vector, matrix or
\* array reads only elements of the base's constant array: every window
\* read has 0 <= offset and offset + length <= the array's length, for
\* every integer index
C27_FoldingReadsInsideConstArray ==
    call.handler \in {"handleBracketDereference", "handleDotDereference"}
        => \A k \in 1..Len(call.reads) :
              /\ 0 <= call.reads[k].offset
              /\ call.reads[k].offset + call.reads[k].length <= Len(call.base.constArray)

--------------------------------------------------------------------------
(* The pragmas' contract *)

WellFormedPragma(tokens) ==
    /\ Len(tokens) = 4
    /\ tokens[1] \in {"optimize", "debug"}
    /\ tokens[2] = "("
    /\ tokens[3] \in {"on", "off"}
    /\ tokens[4] = ")"

\* C28: handlePragma changes the optimize or the debug flag only for the
\* well-formed sequence keyword ( on|off ), and then only the keyword's
\* flag; every malformed optimize or debug pragma, one with a missing or a
\* wrong closing ")" included, reports one error and leaves both flags as
\* they were
C28_MalformedPragmaLeavesFlags ==
    \A k \in 1..Len(pragmaCalls) :
        LET c == pragmaCalls[k]
        IN  /\ c.after # c.before => WellFormedPragma(c.tokens)
            /\ WellFormedPragma(c.tokens)
                  => c.after = [c.before EXCEPT ![c.tokens[1]] = (c.tokens[3] = "on")]
            /\ c.tokens[1] \in {"optimize", "debug"} /\ ~WellFormedPragma(c.tokens)
                  => Len(c.errs) = 1 /\ c.after = c.before

--------------------------------------------------------------------------
(* The contract of inductiveLoopIds *)

\* C29: inductiveLoopIds holds only the ids of the loop indexes of loops
\* that inductiveLoopCheck accepted without an error: a call that reports
\* an error, for the init, the condition or the terminal, leaves the set as
\* it was, and a call that reports none adds the id of its loop index only
C29_OnlyAcceptedLoopsRecorded ==
    [][pc = "loops"
          => /\ loopErrs' # <<>> => inductiveLoopIds' = inductiveLoopIds
             /\ loopErrs' = <<>>
                   => inductiveLoopIds'
                         = inductiveLoopIds \cup {lastLoop'.init.children[1].children[1].id}]_vars

--------------------------------------------------------------------------
(* The contract of needsIndexLimitationChecking *)

BracketStep == call'.handler = "handleBracketDereference" /\ steps' = steps + 1

IndexQueued == needsIndexLimitationChecking' # needsIndexLimitationChecking

\* C30 as stated: handleBracketDereference appends the index to
\* needsIndexLimitationChecking only when the index is not a compile-time
\* constant and an index limitation applies to the base; a call with a
\* constant index, or one that ends in the recovery node, leaves the queue
\* unchanged
C30_OnlyVariableIndexQueued ==
    [][BracketStep
          => /\ IndexQueued
                   => /\ needsIndexLimitationChecking'
                            = Append(needsIndexLimitationChecking, call'.index)
                      /\ call'.index.type.storage # "EvqConst"
                      /\ anyIndexLimits /\ IndexLimitApplies(call'.base)
             /\ call'.index.type.storage = "EvqConst" => ~IndexQueued
             /\ node' = RecoveryNode => ~IndexQueued]_vars

\* C30, amended: handleBracketDereference appends the index, constant or
\* not, to needsIndexLimitationChecking exactly when the call builds a
\* result, the ES 2.0 index limits are on and one of them applies to the
\* base; a call whose base cannot be indexed ends in the recovery node and
\* leaves the queue unchanged, as does a call no limit applies to
C30_IndexQueuedWhenLimited ==
    [][BracketStep
          => LET t == call'.base.type
                 notIndexable == ~isArray(t) /\ ~isMatrix(t) /\ ~isVector(t)
                 recovered == notIndexable
                 limited == anyIndexLimits /\ IndexLimitApplies(call'.base)
             IN  /\ needsIndexLimitationChecking'
                       = IF limited /\ ~recovered
                         THEN Append(needsIndexLimitationChecking, call'.index)
                         ELSE needsIndexLimitationChecking
                 /\ recovered => node' = RecoveryNode]_vars

\* a constant index has been queued for the limitation check
C30_Witness ==
    /\ pc = "expr"
    /\ call.handler = "handleBracketDereference"
    /\ call.index.type.storage = "EvqConst"
    /\ anyIndexLimits
    /\ needsIndexLimitationChecking # <<>>
    /\ needsIndexLimitationChecking[Len(needsIndexLimitationChecking)] = call.index

==========================================================================
